---- MODULE Spec2Model ----
(***************************************************************************)
(* Model of the app-store-api Helm client (pkg/helm/client.go) and of the  *)
(* HTTP handlers that drive it (pkg/api/handlers.go).                      *)
(*                                                                         *)
(* Every request-handling goroutine is a process of Procs.  A process      *)
(* steps from one external call (Helm SDK action, helm CLI subprocess,     *)
(* mutex acquisition) to the next, so that the interleavings the Go        *)
(* scheduler can produce between those calls are interleavings of the      *)
(* model.  The Helm backend and the helm CLI are the environment: each     *)
(* call to them is a nondeterministic choice over the outcomes they can    *)
(* produce in the current state of the release store.                      *)
(*                                                                         *)
(* Texts (error messages, chart references) are sequences of tokens;       *)
(* strings.Contains and strings.SplitN are computed on them.               *)
(*                                                                         *)
(* The catalog service (pkg/appcatalog), the construction of the client,   *)
(* the metrics snapshot (pkg/metrics), the metrics stream handler, the     *)
(* release listing with its Service lookups and the package main variant   *)
(* with its global mutex have their own variables and their own            *)
(* specifications (SpecCatalog, SpecClient, SpecMetrics, SpecStream,       *)
(* SpecList, SpecMain); each specification leaves the variables of the     *)
(* others at their idle values.                                            *)
(***************************************************************************)
EXTENDS Integers, Sequences, FiniteSets, TLC

\* ------------------------------------------------------------------ bounds
\* Number of operations (requests, sync passes) started in one behaviour
\* of concurrent goroutines.
MaxOps == 2
\* Number of operations started in one behaviour when every operation
\* starts after the previous one returned.
MaxSeqOps == 4
\* Longest chart list, other than the whole catalog, handed to UpdateRepos.
MaxCharts == 2

\* Request-handling goroutines sharing the one HelmClient.
Procs == {"p1", "p2"}

\* ------------------------------------------------------------------ texts
Nil == << >>

\* strings.Contains(s, sub) on token sequences.
Contains(s, sub) ==
    \E i \in 0..(Len(s) - Len(sub)) : SubSeq(s, i + 1, i + Len(sub)) = sub

RECURSIVE IndexOf(_, _, _)
\* Position of the first token t in s at or after position i, 0 if none.
IndexOf(s, t, i) ==
    IF i > Len(s) THEN 0
    ELSE IF s[i] = t THEN i
    ELSE IndexOf(s, t, i + 1)

\* strings.SplitN(s, "/", 2): one part when s holds no "/", else the text
\* before the first "/" and everything after it.
SplitN2(s) ==
    LET k == IndexOf(s, "/", 1)
    IN  IF k = 0 THEN << s >>
        ELSE << SubSeq(s, 1, k - 1), SubSeq(s, k + 1, Len(s)) >>

NotFoundText == << "not", "found" >>
ErrReleaseNotFound == << "release:", "not", "found" >>
ErrUnreachable == << "Kubernetes", "cluster", "unreachable" >>
ErrMappingNotFound == << "resource", "mapping", "not", "found" >>
ErrNameInUse == << "cannot", "re-use", "a", "name", "that", "is", "still", "in", "use" >>
ErrInstallFailed == << "timed", "out", "waiting", "for", "the", "condition" >>
ErrNoChart == << "chart", "missing", "in", "repository", "index" >>
ErrLoad == << "validation:", "chart.metadata", "is", "required" >>
ErrExecNotFound == << "exec:", "helm:", "executable", "file", "not", "found", "in", "$PATH" >>
ErrExit == << "exit", "status", "1" >>
ErrJSON == << "unexpected", "end", "of", "JSON", "input" >>

\* ---------------------------------------------------------------- catalog
AppInstallNamespace == "app-store-apps"

ChartNginx == [Name |-> "nginx", Chart |-> << "bitnami", "/", "nginx" >>, RepoURL |-> "u1"]
ChartRedis == [Name |-> "redis", Chart |-> << "bitnami", "/", "redis" >>, RepoURL |-> "u1"]
ChartLocal == [Name |-> "local", Chart |-> << "plain" >>, RepoURL |-> "u2"]
ChartOci   == [Name |-> "oci", Chart |-> << "ghcr", "/", "oci" >>, RepoURL |-> ""]

\* The catalog file, in load order.
Catalog == << ChartNginx, ChartRedis, ChartLocal, ChartOci >>

\* The install requests made: chart name ("ghost" is in no catalog) and
\* release_name ("" is an omitted one).
InstallRequests ==
    { << "nginx", "" >>, << "nginx", "web" >>, << "ghost", "" >> }
\* Names under which the release store can hold a record.
ReleaseNames == { "nginx", "web" }
\* Release names DELETE and status requests are made for.
TargetNames == { "web", "nginx" }

\* The first k entries of charts, for every k up to n.
Prefixes(charts, n) ==
    { SubSeq(charts, 1, k) : k \in 0..(IF n < Len(charts) THEN n ELSE Len(charts)) }

\* Chart lists UpdateRepos is called with from outside InstallChart: the
\* startup sync over the whole catalog, and over catalogs that hold only
\* its first entries.
UpdateInputs == { Catalog } \cup Prefixes(Catalog, MaxCharts)

VARIABLES
    pc,           \* pc[p]: where goroutine p stands
    kind,         \* kind[p]: the operation p is running
    chartDef,     \* chartDef[p]: InstallChart's chartDef
    reqChart,     \* reqChart[p]: chartName of the install request path
    reqRelease,   \* reqRelease[p]: release_name of the install request body
    releaseName,  \* releaseName[p]: the releaseName local of the operation
    urCharts,     \* urCharts[p]: UpdateRepos' charts argument
    urIdx,        \* urIdx[p]: position of the range loop over charts
    addedRepos,   \* addedRepos[p]: UpdateRepos' addedRepos map (its keys)
    trace,        \* trace[p]: external calls made by p's current operation
    resp,         \* resp[p]: what the operation answered
    repoUpdateMu, \* holder of HelmClient.repoUpdateMu, "free" if none
    repos,        \* repository names registered with the helm CLI
    releases,     \* release store of the bound namespace: name -> status
    removed,      \* names whose release was removed by a successful uninstall
                  \* and not created again since
    opsLeft       \* operations that may still be started

helmVars == << pc, kind, chartDef, reqChart, reqRelease, releaseName, urCharts, urIdx,
               addedRepos, trace, resp, repoUpdateMu, repos, releases, removed, opsLeft >>

\* appcatalog.Service, looked at on its own.
VARIABLES
    svcCharts,    \* Service.charts, in load order
    lookup,       \* the last GetChartByName call: its argument and its results
    listed        \* what the last GetAvailableCharts call returned

catVars == << svcCharts, lookup, listed >>

\* The construction of the Helm client and the namespace its operations
\* target, looked at on their own.
VARIABLES
    cfg,          \* the AppConfig main loaded: AppInstallNamespace, KubeconfigPath
    inCluster,    \* KUBERNETES_SERVICE_HOST and _PORT are both set
    backend,      \* what actionCfg.Init and the namespace Get would answer
    client,       \* the HelmClient NewHelmClient returned, NoClient if none
    ctor,         \* the NewHelmClient call: made or not, its error, its log
    target        \* the last operation of the client and the namespaces it named

cliVars == << cfg, inCluster, backend, client, ctor, target >>

\* The metrics service, looked at on its own.
VARIABLES
    metricsClientNil, \* Service.metricsClient is nil
    nodeItems,        \* the cluster's nodes, as Nodes().List returns them
    metricItems,      \* the Metrics Server's node metrics, as its List returns them
    queryErrs,        \* the error each of the two list queries would give
    snap              \* the last GetClusterMetricsSnapshot call and its results

metVars == << metricsClientNil, nodeItems, metricItems, queryErrs, snap >>

\* One GET /api/metrics/stream request, looked at on its own.
VARIABLES
    ctxDone,      \* the request context is cancelled: the client is gone
    handlerPc,    \* where MetricsStreamHandler stands
    pollPc,       \* where its polling goroutine stands
    messageChan,  \* "open" or "closed"
    ticks,        \* ticks the polling goroutine has taken from its ticker
    written       \* events written to the response

strVars == << ctxDone, handlerPc, pollPc, messageChan, ticks, written >>

\* One ListInstalledReleases call, looked at on its own.
VARIABLES
    lsPc,         \* where the call stands
    lsResults,    \* what listClient.Run returned: its error and the releases
    lsIdx,        \* position of the range loop over results
    lsLookup,     \* the answer of the Services().List call of this iteration
    releasesInfo, \* the releasesInfo slice built so far
    lsScan,       \* the last scan: the release, how many Services it was
                  \* given, which of them had ports to give, whether the
                  \* lookup failed, and the Service it stopped at (0 if none)
    lsOut         \* what the call returned: its error and the list

lstVars == << lsPc, lsResults, lsIdx, lsLookup, releasesInfo, lsScan, lsOut >>

\* The package main variant: the functions of helm.go behind the one
\* global mutex mu, looked at on their own.
VARIABLES
    mu,           \* holder of the global mutex mu, "free" if none
    mPc,          \* mPc[g]: where goroutine g stands
    mKind,        \* mKind[g]: the function g is running
    mChart,       \* mChart[g]: the chartName an InstallChart was called with
    mRepos,       \* repository names registered with the helm CLI
    mResp,        \* mResp[g]: what the function returned: "release", "value",
                  \* "error", "" while it has not returned
    mOps          \* requests that may still be made

mainVars == << mu, mPc, mKind, mChart, mRepos, mResp, mOps >>

vars == << helmVars, catVars, cliVars, metVars, strVars, lstVars, mainVars >>

\* What each part of the program leaves alone: the state of the others.
notHelmVars == << catVars, cliVars, metVars, strVars, lstVars, mainVars >>
notCatVars == << helmVars, cliVars, metVars, strVars, lstVars, mainVars >>
notCliVars == << helmVars, catVars, metVars, strVars, lstVars, mainVars >>
notMetVars == << helmVars, catVars, cliVars, strVars, lstVars, mainVars >>
notStrVars == << helmVars, catVars, cliVars, metVars, lstVars, mainVars >>
notLstVars == << helmVars, catVars, cliVars, metVars, strVars, mainVars >>
notMainVars == << helmVars, catVars, cliVars, metVars, strVars, lstVars >>

NoChart == [Name |-> "", Chart |-> << >>, RepoURL |-> ""]
NoResp == [code |-> 0, err |-> Nil, name |-> "", list |-> {}]

Fresh ==
    /\ pc = [p \in Procs |-> "idle"]
    /\ kind = [p \in Procs |-> "none"]
    /\ chartDef = [p \in Procs |-> NoChart]
    /\ reqChart = [p \in Procs |-> ""]
    /\ reqRelease = [p \in Procs |-> ""]
    /\ releaseName = [p \in Procs |-> ""]
    /\ urCharts = [p \in Procs |-> << >>]
    /\ urIdx = [p \in Procs |-> 0]
    /\ addedRepos = [p \in Procs |-> {}]
    /\ trace = [p \in Procs |-> << >>]
    /\ resp = [p \in Procs |-> NoResp]
    /\ repoUpdateMu = "free"
    /\ repos = {}
    /\ releases = [n \in ReleaseNames |-> "none"]
    /\ removed = {}

\* No call made yet on a catalog service.
NoLookup == [called |-> FALSE, name |-> "", chart |-> NoChart, err |-> Nil]

\* The catalog service is not looked at.
CatIdle == svcCharts = << >> /\ lookup = NoLookup /\ listed = << >>

NoCfg == [AppInstallNamespace |-> "", KubeconfigPath |-> ""]
NoBackend == [init |-> Nil, nsGet |-> Nil]
NoClient == [built |-> FALSE, actionNs |-> "", kubeConfig |-> ""]
NoCtor == [called |-> FALSE, err |-> Nil, log |-> ""]
NoTarget == [op |-> "", arg |-> "", asked |-> "", store |-> "", resources |-> ""]

\* No client is being constructed.
CliIdle ==
    /\ cfg = NoCfg /\ inCluster = FALSE /\ backend = NoBackend
    /\ client = NoClient /\ ctor = NoCtor /\ target = NoTarget

NoQueryErrs == [nodeMetrics |-> Nil, nodes |-> Nil]
NoSnap == [called |-> FALSE, err |-> Nil, metrics |-> << >>]

\* No metrics snapshot is being taken.
MetIdle ==
    /\ metricsClientNil = FALSE /\ nodeItems = << >> /\ metricItems = << >>
    /\ queryErrs = NoQueryErrs /\ snap = NoSnap

\* No metrics stream is open.
StrIdle ==
    /\ ctxDone = FALSE /\ handlerPc = "none" /\ pollPc = "none"
    /\ messageChan = "none" /\ ticks = 0 /\ written = 0

NoResults == [err |-> Nil, names |-> << >>]
NoServices == [selector |-> "", err |-> Nil, items |-> << >>]
NoScan == [release |-> "", listed |-> 0, holders |-> {}, failed |-> FALSE, stopped |-> 0]
NoOut == [err |-> Nil, list |-> << >>]

\* No listing is looked at.
LstIdle ==
    /\ lsPc = "none" /\ lsResults = NoResults /\ lsIdx = 0 /\ lsLookup = NoServices
    /\ releasesInfo = << >> /\ lsScan = NoScan /\ lsOut = NoOut

\* The goroutines of the package main variant: main, which runs InitHelm
\* before the server starts, and the request handlers.
MainProcs == Procs \cup { "main" }

\* The package main variant is not looked at.
MainIdle ==
    /\ mu = "free"
    /\ mPc = [g \in MainProcs |-> "none"]
    /\ mKind = [g \in MainProcs |-> "none"]
    /\ mChart = [g \in MainProcs |-> ""]
    /\ mRepos = {}
    /\ mResp = [g \in MainProcs |-> ""]
    /\ mOps = 0

\* Everything but the Helm client and its handlers stands still.
RestIdle == CatIdle /\ CliIdle /\ MetIdle /\ StrIdle /\ LstIdle /\ MainIdle

Init == Fresh /\ opsLeft = MaxOps /\ RestIdle

InitSeq == Fresh /\ opsLeft = MaxSeqOps /\ RestIdle

\* A goroutine that is not inside an operation can start the next one.
CanStart(p) == pc[p] \in { "idle", "done" } /\ opsLeft > 0

\* Fresh frame of an operation of kind k started by p.
Begin(p, k) ==
    /\ kind' = [kind EXCEPT ![p] = k]
    /\ trace' = [trace EXCEPT ![p] = << >>]
    /\ resp' = [resp EXCEPT ![p] = NoResp]
    /\ urIdx' = [urIdx EXCEPT ![p] = 0]
    /\ addedRepos' = [addedRepos EXCEPT ![p] = {}]
    /\ opsLeft' = opsLeft - 1

Log(p, entry) == trace' = [trace EXCEPT ![p] = Append(trace[p], entry)]

\* ------------------------------------------------------------ UpdateRepos
\* A call of UpdateRepos from outside InstallChart (NewService's startup
\* sync, an explicit call): the goroutine arrives at repoUpdateMu.Lock().
CallUpdateRepos(p, charts) ==
    /\ UNCHANGED notHelmVars
    /\ CanStart(p)
    /\ Begin(p, "UpdateRepos")
    /\ pc' = [pc EXCEPT ![p] = "ur_lock"]
    /\ urCharts' = [urCharts EXCEPT ![p] = charts]
    /\ chartDef' = [chartDef EXCEPT ![p] = NoChart]
    /\ reqChart' = [reqChart EXCEPT ![p] = ""]
    /\ reqRelease' = [reqRelease EXCEPT ![p] = ""]
    /\ releaseName' = [releaseName EXCEPT ![p] = ""]
    /\ UNCHANGED << repoUpdateMu, repos, releases, removed >>

\* A Lock() that lets a caller in while another one holds the mutex.
LockFree_NoWait(p) == TRUE

\* hc.repoUpdateMu.Lock()
LockFree(p) == repoUpdateMu = "free"

UR_Lock(p) ==
    /\ UNCHANGED notHelmVars
    /\ pc[p] = "ur_lock"
    /\ LockFree(p)
    /\ repoUpdateMu' = p
    /\ pc' = [pc EXCEPT ![p] = "ur_loop"]
    /\ urIdx' = [urIdx EXCEPT ![p] = 1]
    /\ addedRepos' = [addedRepos EXCEPT ![p] = {}]
    /\ UNCHANGED << kind, chartDef, reqChart, reqRelease, releaseName, urCharts, trace, resp,
                    repos, releases, removed, opsLeft >>

\* The definition the range loop is at.
CurChart(p) == urCharts[p][urIdx[p]]

\* The loop body's three `continue`s: empty repo URL, a chart reference
\* without "/", a repository name already in addedRepos.
Skipped(p, chart) ==
    \/ chart.RepoURL = ""
    \/ Len(SplitN2(chart.Chart)) < 2
    \/ SplitN2(chart.Chart)[1] \in addedRepos[p]

\* A loop that marks a repository as handled whatever the command returned.
AddedAfter_Always(ok, repoName) == { repoName }

\* What a registration that ran adds to addedRepos, given whether the
\* command succeeded.
AddedAfter(ok, repoName) == IF ok THEN { repoName } ELSE {}

\* A loop that a failed registration ends.
AfterRegistration_Abort(ok, idx, n) == IF ok THEN idx + 1 ELSE n + 1

\* Where the range loop stands after a registration ran at position idx of
\* n definitions: at the next definition, whether the command succeeded or
\* not (client.go lines 112-118 only log and record).
AfterRegistration(ok, idx, n) == idx + 1

\* One iteration of the range loop.
UR_Loop(p) ==
    /\ UNCHANGED notHelmVars
    /\ pc[p] = "ur_loop"
    /\ urIdx[p] <= Len(urCharts[p])
    /\ LET chart == CurChart(p)
           repoName == SplitN2(chart.Chart)[1]
       IN  IF Skipped(p, chart)
           THEN /\ UNCHANGED << addedRepos, trace, repos >>
                /\ urIdx' = [urIdx EXCEPT ![p] = @ + 1]
           ELSE \E ok \in BOOLEAN :
                   \* exec "helm repo add <repoName> <url> --force-update"
                   /\ Log(p, << "repo add", repoName, ok >>)
                   /\ addedRepos' = [addedRepos EXCEPT ![p] = @ \cup AddedAfter(ok, repoName)]
                   /\ repos' = IF ok THEN repos \cup { repoName } ELSE repos
                   /\ urIdx' = [urIdx EXCEPT ![p] = AfterRegistration(ok, @, Len(urCharts[p]))]
    /\ UNCHANGED << pc, kind, chartDef, reqChart, reqRelease, releaseName, urCharts, resp,
                    repoUpdateMu, releases, removed, opsLeft >>

\* A pass that refreshes whatever its registrations gave, as updateHelmRepos
\* of the package main variant does.
NeedsRefresh_Always(p) == TRUE

\* Whether the pass runs the global "helm repo update".
NeedsRefresh(p) == addedRepos[p] # {}

\* An UpdateRepos that hands the refresh failure to its caller.
UpdateReposResult_Surfaced(refreshErr) == refreshErr

\* The error UpdateRepos returns when its global refresh ended with
\* refreshErr (Nil when it succeeded or was not run).
UpdateReposResult(refreshErr) == Nil

\* A pass that returns without releasing the mutex when its refresh failed.
Unlock_OnSuccess(p, refreshErr) == IF refreshErr = Nil THEN "free" ELSE p

\* The holder of repoUpdateMu after p's pass returned: the deferred Unlock
\* (client.go line 82) runs on the one return path, whatever the refresh gave.
Unlock(p, refreshErr) == "free"

\* Where UpdateRepos returns to: InstallChart's retry, or the caller.
AfterUpdate(p) == IF kind[p] = "InstallChart" THEN "ic_locate2" ELSE "done"

\* After the loop: the conditional global refresh, the deferred Unlock and
\* the return.
UR_Refresh(p) ==
    /\ UNCHANGED notHelmVars
    /\ pc[p] = "ur_loop"
    /\ urIdx[p] > Len(urCharts[p])
    /\ \E refreshErr \in { Nil, ErrUnreachable } :
          /\ IF NeedsRefresh(p)
             THEN Log(p, << "repo update", Nil, refreshErr >>)
             ELSE refreshErr = Nil /\ UNCHANGED trace
          /\ resp' = [resp EXCEPT ![p] =
                         IF kind[p] = "UpdateRepos"
                         THEN [NoResp EXCEPT !.err = UpdateReposResult(refreshErr)]
                         ELSE @]
          /\ repoUpdateMu' = Unlock(p, refreshErr)
    /\ pc' = [pc EXCEPT ![p] = AfterUpdate(p)]
    /\ UNCHANGED << kind, chartDef, reqChart, reqRelease, releaseName, urCharts, urIdx, addedRepos,
                    repos, releases, removed, opsLeft >>

\* ------------------------------------------------------------ catalog
\* appcatalog.Service.GetChartByName: position of the first catalog entry
\* with that Name, 0 when there is none (the not-found error).
RECURSIVE FirstMatch(_, _, _)
FirstMatch(charts, name, i) ==
    IF i > Len(charts) THEN 0
    ELSE IF charts[i].Name = name THEN i
    ELSE FirstMatch(charts, name, i + 1)

\* A lookup that keeps scanning and returns the last entry with that Name.
LookupChart_LastMatch(charts, name) ==
    IF \A i \in 1..Len(charts) : charts[i].Name # name THEN 0
    ELSE CHOOSE i \in 1..Len(charts) :
             /\ charts[i].Name = name
             /\ \A j \in (i + 1)..Len(charts) : charts[j].Name # name

\* The range loop of GetChartByName over s.charts (service.go lines 54-59).
LookupChart(charts, name) == FirstMatch(charts, name, 1)

GetChartByName(name) == LookupChart(Catalog, name)

ErrChartNotFound(name) == << "chart", name, "not", "found", "in", "configured", "list" >>

\* An InstallChart that ignores the requested release name.
EffectiveReleaseName_ChartOnly(def, requested) == def.Name

\* ---------------------------------------------------------- InstallChart
\* The release name InstallChart works with (client.go lines 141-143).
EffectiveReleaseName(def, requested) ==
    IF requested = "" THEN def.Name ELSE requested

\* An operation ends: the handler writes its answer.
Answer(p, r) ==
    /\ resp' = [resp EXCEPT ![p] = r]
    /\ pc' = [pc EXCEPT ![p] = "done"]

\* A handler that answers a duplicate release with 409 Conflict.
InstallErrorCode_Conflict(err) ==
    IF Contains(err, << "already", "exists" >>) THEN 409 ELSE 500

\* The status InstallChartHandler answers an InstallChart error with
\* (handlers.go lines 69-73): always 500, whatever the error.
InstallErrorCode(err) == 500

\* InstallChart returned err: the handler answers it.
InstallFailed(p, err) ==
    Answer(p, [NoResp EXCEPT !.code = InstallErrorCode(err), !.err = err])

\* POST /api/charts/{chartName}/install up to InstallChart's history query:
\* the catalog lookup, the conversion to a ChartDefinition and the release
\* name default.
InstallChartHandler(p, chartName, requested) ==
    /\ UNCHANGED notHelmVars
    /\ CanStart(p)
    /\ kind' = [kind EXCEPT ![p] = "InstallChart"]
    /\ trace' = [trace EXCEPT ![p] = << >>]
    /\ urIdx' = [urIdx EXCEPT ![p] = 0]
    /\ addedRepos' = [addedRepos EXCEPT ![p] = {}]
    /\ urCharts' = [urCharts EXCEPT ![p] = << >>]
    /\ opsLeft' = opsLeft - 1
    /\ reqChart' = [reqChart EXCEPT ![p] = chartName]
    /\ reqRelease' = [reqRelease EXCEPT ![p] = requested]
    /\ LET k == GetChartByName(chartName)
       IN  IF k = 0
           THEN /\ Answer(p, [NoResp EXCEPT !.code = 404, !.err = ErrChartNotFound(chartName)])
                /\ chartDef' = [chartDef EXCEPT ![p] = NoChart]
                /\ releaseName' = [releaseName EXCEPT ![p] = requested]
           ELSE /\ chartDef' = [chartDef EXCEPT ![p] = Catalog[k]]
                /\ releaseName' = [releaseName EXCEPT ![p] = EffectiveReleaseName(Catalog[k], requested)]
                /\ resp' = [resp EXCEPT ![p] = NoResp]
                /\ pc' = [pc EXCEPT ![p] = "ic_history"]
    /\ UNCHANGED << repoUpdateMu, repos, releases, removed >>

\* A client that serialises the installs of one release name: a goroutine
\* waits while another one is past the pre-check of that name.
Proceeds_PerName(p) ==
    \A q \in Procs \ { p } :
        ~ /\ kind[q] = "InstallChart"
          /\ pc[q] \in { "ic_locate1", "ic_update", "ur_lock", "ur_loop",
                         "ic_locate2", "ic_load", "ic_run" }
          /\ releaseName[q] = releaseName[p]

\* A client whose operations all wait for repoUpdateMu, as the functions of
\* the package main variant wait for its global mutex.
Proceeds_RepoMutex(p) == repoUpdateMu = "free"

\* What holds goroutine p back before an external call of InstallChart,
\* ListInstalledReleases, UninstallRelease or GetReleaseStatus: nothing,
\* none of them takes a lock (client.go lines 140-298).
Proceeds(p) == TRUE

\* What histClient.Run(name) can return: a record (Max = 1) when the store
\* holds the release; driver.ErrReleaseNotFound or an empty history when it
\* does not; a failure of the storage backend in both cases.
HistoryOutcomes(name) ==
    IF releases[name] # "none"
    THEN { [n |-> 1, err |-> Nil], [n |-> 0, err |-> ErrUnreachable] }
    ELSE { [n |-> 0, err |-> ErrReleaseNotFound], [n |-> 0, err |-> Nil],
           [n |-> 0, err |-> ErrUnreachable] }

ErrAlreadyExists(name) ==
    << "release", name, "already", "exists", "in", "namespace", AppInstallNamespace >>
ErrCheckingHistory(name, err) ==
    << "error", "checking", "history", "for", "release", name >> \o err

\* A pre-check that asks for more than the one record Max = 1 lets through.
PreCheck_OffByOne(h) ==
    IF h.err = Nil /\ h.n > 1 THEN "exists"
    ELSE IF h.err # Nil /\ ~Contains(h.err, ErrReleaseNotFound) THEN "error"
    ELSE "go"

\* A pre-check that only looks at the history error and never at the
\* records.
PreCheck_NoRecords(h) ==
    IF h.err # Nil /\ ~Contains(h.err, ErrReleaseNotFound) THEN "error"
    ELSE "go"

\* A pre-check that takes every history error for an absent release, as the
\* older InstallChart of the package main variant does (part_002 line 177).
PreCheck_ErrorIsAbsent(h) == IF h.err = Nil THEN "exists" ELSE "go"

\* The pre-check's verdict on a history result: "exists", "error" or "go".
PreCheck(h) ==
    IF h.err = Nil /\ h.n > 0 THEN "exists"
    ELSE IF h.err # Nil /\ ~Contains(h.err, ErrReleaseNotFound) THEN "error"
    ELSE "go"

\* The history pre-check (client.go lines 145-151).
IC_History(p) ==
    /\ UNCHANGED notHelmVars
    /\ pc[p] = "ic_history"
    /\ Proceeds(p)
    /\ \E h \in HistoryOutcomes(releaseName[p]) :
          /\ Log(p, << "history", releaseName[p], h >>)
          /\ CASE PreCheck(h) = "exists" ->
                    InstallFailed(p, ErrAlreadyExists(releaseName[p]))
               [] PreCheck(h) = "error" ->
                    InstallFailed(p, ErrCheckingHistory(releaseName[p], h.err))
               [] OTHER ->
                    /\ pc' = [pc EXCEPT ![p] = "ic_locate1"]
                    /\ UNCHANGED resp
    /\ UNCHANGED << kind, chartDef, reqChart, reqRelease, releaseName, urCharts, urIdx, addedRepos,
                    repoUpdateMu, repos, releases, removed, opsLeft >>

\* What LocateChart(chart) can return: a reference into a repository
\* resolves only when that repository is registered; a plain reference is
\* a local path that is there or not; every lookup can fail.
LocateOutcomes(chart) ==
    IF Len(SplitN2(chart)) = 2 /\ SplitN2(chart)[1] \notin repos
    THEN { ErrNoChart }
    ELSE { Nil, ErrNoChart }

\* An InstallChart that syncs the repositories before every install.
AfterLocate1_AlwaysSync(err) == "ic_update"

\* Where InstallChart goes after its first LocateChart.
AfterLocate1(err) == IF err # Nil THEN "ic_update" ELSE "ic_load"

\* The first chart resolution (client.go lines 168-171).
IC_Locate1(p) ==
    /\ UNCHANGED notHelmVars
    /\ pc[p] = "ic_locate1"
    /\ Proceeds(p)
    /\ \E err \in LocateOutcomes(chartDef[p].Chart) :
          /\ Log(p, << "locate", chartDef[p].Chart, err >>)
          /\ pc' = [pc EXCEPT ![p] = AfterLocate1(err)]
    /\ UNCHANGED << kind, chartDef, reqChart, reqRelease, releaseName, urCharts, urIdx, addedRepos,
                    resp, repoUpdateMu, repos, releases, removed, opsLeft >>

\* The chart list of the on-demand sync (client.go line 172).
OnDemandCharts(def) == << def >>

\* An InstallChart that takes the mutex itself before it calls UpdateRepos,
\* as the InstallChart of the package main variant holds its global mutex.
MutexAtSyncCall_Held(p, holder) == IF holder = "free" THEN p ELSE holder

\* The holder of repoUpdateMu when InstallChart calls UpdateRepos, given
\* the holder before: InstallChart locks nothing (client.go lines 140-172).
MutexAtSyncCall(p, holder) == holder

\* hc.UpdateRepos([]ChartDefinition{chartDef}): the goroutine arrives at
\* repoUpdateMu.Lock().
IC_Update(p) ==
    /\ UNCHANGED notHelmVars
    /\ pc[p] = "ic_update"
    /\ urCharts' = [urCharts EXCEPT ![p] = OnDemandCharts(chartDef[p])]
    /\ Log(p, << "UpdateRepos", OnDemandCharts(chartDef[p]), Nil >>)
    /\ pc' = [pc EXCEPT ![p] = "ur_lock"]
    /\ repoUpdateMu' = MutexAtSyncCall(p, repoUpdateMu)
    /\ UNCHANGED << kind, chartDef, reqChart, reqRelease, releaseName, urIdx, addedRepos, resp,
                    repos, releases, removed, opsLeft >>

ErrCouldNotLocate(chart, err) ==
    << "could", "not", "locate", "chart" >> \o chart \o << "after", "repo", "update" >> \o err
ErrFailedLoad(err) == << "failed", "to", "load", "chart", "from", "path" >> \o err
ErrFailedInstall(chart, err) == << "failed", "to", "install", "chart" >> \o chart \o err

\* The retry resolution (client.go lines 175-178).
IC_Locate2(p) ==
    /\ UNCHANGED notHelmVars
    /\ pc[p] = "ic_locate2"
    /\ Proceeds(p)
    /\ \E err \in LocateOutcomes(chartDef[p].Chart) :
          /\ Log(p, << "locate", chartDef[p].Chart, err >>)
          /\ IF err # Nil
             THEN InstallFailed(p, ErrCouldNotLocate(chartDef[p].Chart, err))
             ELSE /\ pc' = [pc EXCEPT ![p] = "ic_load"]
                  /\ UNCHANGED resp
    /\ UNCHANGED << kind, chartDef, reqChart, reqRelease, releaseName, urCharts, urIdx, addedRepos,
                    repoUpdateMu, repos, releases, removed, opsLeft >>

\* loader.Load(cp) (client.go lines 182-185).
IC_Load(p) ==
    /\ UNCHANGED notHelmVars
    /\ pc[p] = "ic_load"
    /\ Proceeds(p)
    /\ \E err \in { Nil, ErrLoad } :
          /\ Log(p, << "load", chartDef[p].Chart, err >>)
          /\ IF err # Nil
             THEN InstallFailed(p, ErrFailedLoad(err))
             ELSE /\ pc' = [pc EXCEPT ![p] = "ic_run"]
                  /\ UNCHANGED resp
    /\ UNCHANGED << kind, chartDef, reqChart, reqRelease, releaseName, urCharts, urIdx, addedRepos,
                    repoUpdateMu, repos, releases, removed, opsLeft >>

\* What client.Run can do for a release name: refuse a name whose history
\* is not empty; else create the release and deploy it, create it and leave
\* it failed, or fail before anything is stored.
RunOutcomes(name) ==
    IF releases[name] # "none"
    THEN { [err |-> ErrNameInUse, status |-> releases[name]] }
    ELSE { [err |-> Nil, status |-> "deployed"],
           [err |-> ErrInstallFailed, status |-> "failed"],
           [err |-> ErrUnreachable, status |-> "none"] }

\* The backend install and the answer (client.go lines 187-194, handlers.go
\* lines 69-82).
IC_Run(p) ==
    /\ UNCHANGED notHelmVars
    /\ pc[p] = "ic_run"
    /\ Proceeds(p)
    /\ \E r \in RunOutcomes(releaseName[p]) :
          /\ Log(p, << "install", releaseName[p], r.err >>)
          /\ releases' = [releases EXCEPT ![releaseName[p]] = r.status]
          /\ removed' = IF r.status # "none" THEN removed \ { releaseName[p] } ELSE removed
          /\ IF r.err # Nil
             THEN InstallFailed(p, ErrFailedInstall(chartDef[p].Chart, r.err))
             ELSE Answer(p, [NoResp EXCEPT !.code = 200, !.name = releaseName[p]])
    /\ UNCHANGED << kind, chartDef, reqChart, reqRelease, releaseName, urCharts, urIdx, addedRepos,
                    repoUpdateMu, repos, opsLeft >>

\* ------------------------------------------- uninstall, status and listing
\* Fresh frame of a one-step request for release `name`.
BeginRequest(p, k, name) ==
    /\ UNCHANGED notHelmVars
    /\ CanStart(p)
    /\ Proceeds(p)
    /\ kind' = [kind EXCEPT ![p] = k]
    /\ chartDef' = [chartDef EXCEPT ![p] = NoChart]
    /\ reqChart' = [reqChart EXCEPT ![p] = ""]
    /\ reqRelease' = [reqRelease EXCEPT ![p] = ""]
    /\ releaseName' = [releaseName EXCEPT ![p] = name]
    /\ urCharts' = [urCharts EXCEPT ![p] = << >>]
    /\ urIdx' = [urIdx EXCEPT ![p] = 0]
    /\ addedRepos' = [addedRepos EXCEPT ![p] = {}]
    /\ opsLeft' = opsLeft - 1

ErrNotLoaded(name) ==
    << "uninstall:", "Release", "not", "loaded:", name >> \o ErrReleaseNotFound
ErrUninstallPartial ==
    << "uninstallation", "completed", "with", "1", "error(s):" >> \o ErrMappingNotFound

\* An UninstallRelease that asks the backend to keep the release's records.
KeepHistory_Set == TRUE

\* uninstallClient.KeepHistory: UninstallRelease sets Timeout only (client.go
\* lines 262-263), so the backend deletes the records of a release it
\* uninstalls.
KeepHistory == FALSE

\* What uninstallClient.Run(name) can do: report a release that is not in
\* the store as not found; remove a release that is; leave it behind in
\* status uninstalling when deleting its resources failed; fail without
\* touching the store when the backend cannot be reached.
UninstallOutcomes(name) ==
    IF releases[name] = "none"
    THEN { [err |-> ErrNotLoaded(name), status |-> "none"],
           [err |-> ErrUnreachable, status |-> "none"] }
    ELSE { [err |-> Nil, status |-> IF KeepHistory THEN "uninstalled" ELSE "none"],
           [err |-> ErrUninstallPartial, status |-> "uninstalling"],
           [err |-> ErrUnreachable, status |-> releases[name]] }

\* An UninstallRelease that treats a release that is not found as removed.
UninstallRelease_IgnoreNotFound(name, err) ==
    IF err = Nil \/ Contains(err, ErrReleaseNotFound) THEN Nil
    ELSE << "failed", "to", "uninstall", "release", name >> \o err

\* HelmClient.UninstallRelease: the error it returns for the backend's err.
UninstallRelease(name, err) ==
    IF err = Nil THEN Nil
    ELSE IF Contains(err, ErrReleaseNotFound)
         THEN << "release", name, "not", "found", "in", "namespace", AppInstallNamespace >>
         ELSE << "failed", "to", "uninstall", "release", name >> \o err

\* Status code UninstallReleaseHandler answers for UninstallRelease's err.
UninstallCode(err) ==
    IF err = Nil THEN 200
    ELSE IF Contains(err, NotFoundText) THEN 404
    ELSE 500

\* DELETE /api/releases/{releaseName}
UninstallReleaseHandler(p, name) ==
    /\ BeginRequest(p, "UninstallRelease", name)
    /\ \E o \in UninstallOutcomes(name) :
          LET err == UninstallRelease(name, o.err)
          IN  /\ trace' = [trace EXCEPT ![p] = << << "uninstall", name, o.err >> >>]
              /\ releases' = [releases EXCEPT ![name] = o.status]
              /\ removed' = IF o.err = Nil THEN removed \cup { name } ELSE removed
              /\ Answer(p, [NoResp EXCEPT !.code = UninstallCode(err), !.err = err])
    /\ UNCHANGED << repoUpdateMu, repos >>

\* What running "helm status <name> -n <ns> -o json" can give: the process
\* cannot be started; it exits with status 1 and reports on stderr that the
\* release is not found, or that the cluster cannot be reached; it exits
\* with 0 and prints the status, as valid JSON or not.
StatusOutcomes(name) ==
    { [err |-> ErrExecNotFound, stderr |-> Nil, json |-> FALSE],
      [err |-> ErrExit, stderr |-> << "Error:" >> \o ErrUnreachable, json |-> FALSE] }
    \cup
    ( IF releases[name] = "none"
      THEN { [err |-> ErrExit, stderr |-> << "Error:" >> \o ErrReleaseNotFound, json |-> FALSE] }
      ELSE { [err |-> Nil, stderr |-> Nil, json |-> TRUE],
             [err |-> Nil, stderr |-> Nil, json |-> FALSE] } )

\* HelmClient.GetReleaseStatus: the error it returns for a run of the
\* subprocess.
GetReleaseStatus(name, o) ==
    IF o.err # Nil
    THEN << "error", "getting", "status", "for", "release", name >> \o o.err
            \o << "Stderr:" >> \o o.stderr
    ELSE IF ~o.json
         THEN << "error", "unmarshalling", "status", "JSON", "for", "release", name >> \o ErrJSON
         ELSE Nil

\* Status code GetReleaseStatusHandler answers for GetReleaseStatus' err.
StatusCode(err) ==
    IF err = Nil THEN 200
    ELSE IF Contains(err, ErrReleaseNotFound) \/ Contains(err, NotFoundText) THEN 404
    ELSE 500

\* GET /api/releases/{releaseName}/status
GetReleaseStatusHandler(p, name) ==
    /\ BeginRequest(p, "GetReleaseStatus", name)
    /\ \E o \in StatusOutcomes(name) :
          LET err == GetReleaseStatus(name, o)
          IN  /\ trace' = [trace EXCEPT ![p] = << << "status", name, o >> >>]
              /\ Answer(p, [NoResp EXCEPT !.code = StatusCode(err), !.err = err,
                                          !.name = IF err = Nil THEN name ELSE ""])
    /\ UNCHANGED << repoUpdateMu, repos, releases, removed >>

\* Statuses the list action's default state mask selects (SetStateMask
\* with no state flag set).
ListedStatuses == { "deployed", "failed" }

\* Names listClient.Run() returns from the store.
ListRun == { n \in ReleaseNames : releases[n] \in ListedStatuses }

ErrFailedList(err) == << "failed", "to", "list", "Helm", "releases" >> \o err

\* GET /api/releases
ListReleasesHandler(p) ==
    /\ BeginRequest(p, "ListInstalledReleases", "")
    /\ \E err \in { Nil, ErrUnreachable } :
          /\ trace' = [trace EXCEPT ![p] = << << "list", "", err >> >>]
          /\ IF err # Nil
             THEN Answer(p, [NoResp EXCEPT !.code = 500, !.err = ErrFailedList(err)])
             ELSE Answer(p, [NoResp EXCEPT !.code = 200, !.list = ListRun])
    /\ UNCHANGED << repoUpdateMu, repos, releases, removed >>

\* One step of goroutine p.
Step(p) ==
    \/ \E charts \in UpdateInputs : CallUpdateRepos(p, charts)
    \/ UR_Lock(p)
    \/ UR_Loop(p)
    \/ UR_Refresh(p)
    \/ \E r \in InstallRequests : InstallChartHandler(p, r[1], r[2])
    \/ IC_History(p)
    \/ IC_Locate1(p)
    \/ IC_Update(p)
    \/ IC_Locate2(p)
    \/ IC_Load(p)
    \/ IC_Run(p)
    \/ \E n \in TargetNames : UninstallReleaseHandler(p, n)
    \/ \E n \in TargetNames : GetReleaseStatusHandler(p, n)
    \/ ListReleasesHandler(p)

Next == \E p \in Procs : Step(p)

\* Goroutines running concurrently.
Spec == Init /\ [][Next]_vars

\* One operation at a time: a single goroutine issues every operation, each
\* after the previous one returned.
SeqCaller == "p1"

NextSeq == Step(SeqCaller)

SpecSeq == InitSeq /\ [][NextSeq]_vars
\* ------------------------------------------------------------- properties
Last(s) == s[Len(s)]

\* The entries of p's trace for one kind of external call.
Entries(p, k) == SelectSeq(trace[p], LAMBDA e : e[1] = k)

\* Goroutine p is between acquiring and releasing repoUpdateMu.
InPass(p) == pc[p] = "ur_loop"

\* Goroutine p takes step `from` -> somewhere else.
Leaves(p, from) == pc[p] = from /\ pc'[p] # from

\* C1: at most one UpdateRepos call is between acquiring and releasing
\* repoUpdateMu at any time, whoever the callers are (startup sync, explicit
\* call, on-demand sync of InstallChart); the goroutine inside the pass is
\* the holder of the mutex, so the helm repo commands of two passes never
\* interleave.
C1_OnePassAtATime ==
    /\ \A p, q \in Procs : InPass(p) /\ InPass(q) => p = q
    /\ \A p \in Procs : InPass(p) => repoUpdateMu = p

\* A pass that has run a registration while an InstallChart's on-demand sync
\* waits for the mutex.
C1_Witness ==
    \E p, q \in Procs :
        /\ InPass(p) /\ trace[p] # << >> /\ Last(trace[p])[1] = "repo add"
        /\ pc[q] = "ur_lock" /\ kind[q] = "InstallChart"

\* The history query of p's step returned at least one record.
HistoryFound(p) ==
    /\ Leaves(p, "ic_history")
    /\ Last(trace'[p])[1] = "history"
    /\ Last(trace'[p])[3].err = Nil
    /\ Last(trace'[p])[3].n > 0

\* C2: an InstallChart whose history query returns at least one record
\* fails with the "already exists" error at once: the call ends in that step,
\* with no chart resolution, no repository sync and no backend install, and
\* the release store, the repositories and the mutex are left as they were.
C2_DuplicateIsPreflight ==
    [][\A p \in Procs :
          HistoryFound(p) =>
              /\ pc'[p] = "done"
              /\ resp'[p].code = 500
              /\ resp'[p].err = ErrAlreadyExists(releaseName[p])
              /\ Len(trace'[p]) = 1
              /\ releases' = releases
              /\ repos' = repos
              /\ repoUpdateMu' = repoUpdateMu]_vars

\* An install that was refused as a duplicate.
C2_Witness ==
    \E p \in Procs :
        /\ pc[p] = "done" /\ kind[p] = "InstallChart"
        /\ resp[p].err = ErrAlreadyExists(releaseName[p])
        /\ Len(trace[p]) = 1 /\ trace[p][1][3].n = 1
        /\ releases[releaseName[p]] = "deployed"

\* C3: with the backend succeeding, an install of a name that has no release
\* succeeds and creates the release; an install of a name whose release a
\* successful install created (the call running after that one returned)
\* fails with the duplicate-release error and creates nothing; a release is
\* only ever created under a name that has none, so there is at most one per
\* name.
C3_SecondInstallRefused ==
    [][\A p \in Procs :
          LET name == releaseName[p] IN
          /\ (Leaves(p, "ic_run") /\ Last(trace'[p])[3] = Nil) =>
                 /\ releases[name] = "none"
                 /\ releases' = [releases EXCEPT ![name] = "deployed"]
                 /\ resp'[p].code = 200
          /\ (Leaves(p, "ic_history") /\ releases[name] = "deployed"
                  /\ Last(trace'[p])[3].err = Nil) =>
                 /\ pc'[p] = "done"
                 /\ resp'[p].err = ErrAlreadyExists(name)
                 /\ releases' = releases
          /\ (Leaves(p, "ic_run") /\ releases[name] # "none") =>
                 /\ releases' = releases
                 /\ resp'[p].code = 500]_vars

\* Two installs of one release name: one answered 200, the other refused as
\* a duplicate without reaching the backend install.
C3_Witness ==
    \E p, q \in Procs :
        /\ p # q
        /\ pc[p] = "done" /\ kind[p] = "InstallChart" /\ resp[p].code = 200
        /\ pc[q] = "done" /\ kind[q] = "InstallChart"
        /\ releaseName[q] = releaseName[p]
        /\ resp[q].err = ErrAlreadyExists(releaseName[q])
        /\ Entries(q, "install") = << >>
        /\ releases[releaseName[p]] = "deployed"

\* C4: within one InstallChart call LocateChart is attempted at most twice,
\* UpdateRepos is invoked at most once, only right after the first resolution
\* failed and with exactly the chart definition being installed; a failed
\* second resolution ends the call with an error and without a backend
\* install; the history query and the backend install run at most once.
C4_SingleRetry ==
    \A p \in Procs :
        kind[p] = "InstallChart" =>
            LET locates == Entries(p, "locate")
                syncs == Entries(p, "UpdateRepos")
            IN  /\ Len(locates) <= 2
                /\ Len(syncs) <= 1
                /\ Len(Entries(p, "history")) <= 1
                /\ Len(Entries(p, "install")) <= 1
                /\ \A i \in 1..Len(trace[p]) :
                      trace[p][i][1] = "UpdateRepos" =>
                          /\ i > 1
                          /\ trace[p][i - 1][1] = "locate"
                          /\ trace[p][i - 1][3] # Nil
                          /\ \A j \in 1..(i - 2) : trace[p][j][1] # "locate"
                          /\ trace[p][i][2] = << chartDef[p] >>
                /\ (Len(locates) >= 1 /\ locates[1][3] = Nil) => Len(locates) = 1 /\ syncs = << >>
                /\ (Len(locates) = 2 /\ locates[2][3] # Nil) =>
                      /\ pc[p] = "done"
                      /\ resp[p].code = 500
                      /\ Entries(p, "install") = << >>

\* An install that located its chart only at the retry, after its one
\* on-demand sync, and then reached the backend install.
C4_Witness ==
    \E p \in Procs :
        /\ kind[p] = "InstallChart" /\ pc[p] = "done"
        /\ Len(Entries(p, "locate")) = 2
        /\ Len(Entries(p, "UpdateRepos")) = 1
        /\ Len(Entries(p, "install")) = 1

\* The release name an install request stands for.
ExpectedName(p) ==
    IF reqRelease[p] = "" THEN chartDef[p].Name ELSE reqRelease[p]

\* C5: the release name of the duplicate pre-check, of the backend install
\* and of the response is the chart's catalog Name when the request gives an
\* empty release name, and the requested name unchanged otherwise.
C5_DefaultReleaseName ==
    \A p \in Procs :
        (kind[p] = "InstallChart" /\ chartDef[p] # NoChart) =>
            /\ \A i \in 1..Len(trace[p]) :
                  trace[p][i][1] \in { "history", "install" } =>
                      trace[p][i][2] = ExpectedName(p)
            /\ (pc[p] = "done" /\ resp[p].code = 200) => resp[p].name = ExpectedName(p)

\* An install without a release name answered under the chart's Name, and
\* one with a release name answered under that name.
C5_Witness ==
    /\ \E p \in Procs :
          /\ kind[p] = "InstallChart" /\ pc[p] = "done" /\ resp[p].code = 200
          /\ reqRelease[p] = "" /\ resp[p].name = "nginx"
          /\ Len(Entries(p, "history")) = 1 /\ Len(Entries(p, "install")) = 1
    /\ \E p \in Procs :
          /\ kind[p] = "InstallChart" /\ pc[p] = "done" /\ resp[p].code = 200
          /\ reqRelease[p] = "web" /\ resp[p].name = "web"

\* A definition the sync derives a repository name from.
Eligible(chart) == chart.RepoURL # "" /\ Len(SplitN2(chart.Chart)) = 2

\* The repository names derived from a chart list.
DerivedRepoNames(charts) ==
    { SplitN2(charts[i].Chart)[1] : i \in { j \in 1..Len(charts) : Eligible(charts[j]) } }

\* The number of definitions of a chart list that derive repository r.
SharingCount(charts, r) ==
    Cardinality({ i \in 1..Len(charts) :
                    Eligible(charts[i]) /\ SplitN2(charts[i].Chart)[1] = r })

\* The registrations of repository r that p's pass has run, in order.
Registrations(p, r) ==
    SelectSeq(trace[p], LAMBDA e : e[1] = "repo add" /\ e[2] = r)

\* p's UpdateRepos call, made from outside InstallChart, has returned.
SyncReturned(p) == kind[p] = "UpdateRepos" /\ pc[p] = "done"

\* C6 as stated: every derived repository name is registered exactly once
\* per call, whatever the registration command returned.
C6_Original ==
    \A p \in Procs :
        SyncReturned(p) =>
            \A r \in DerivedRepoNames(urCharts[p]) : Len(Registrations(p, r)) = 1

\* C6 (amended): in one UpdateRepos call every derived repository name is
\* registered at least once and never again after a registration of it
\* succeeded: exactly once when the first registration succeeds, and
\* otherwise once more for every further definition sharing the name until
\* one registration succeeds.
C6_RegisteredUntilSuccess ==
    \A p \in Procs :
        SyncReturned(p) =>
            \A r \in DerivedRepoNames(urCharts[p]) :
                LET regs == Registrations(p, r)
                IN  /\ Len(regs) >= 1
                    /\ Len(regs) <= SharingCount(urCharts[p], r)
                    /\ \A i \in 1..(Len(regs) - 1) : regs[i][3] = FALSE
                    /\ Last(regs)[3] = FALSE => Len(regs) = SharingCount(urCharts[p], r)

\* A pass over two definitions sharing a repository whose first registration
\* failed and whose second succeeded.
C6_Witness ==
    \E p \in Procs :
        /\ SyncReturned(p)
        /\ Len(urCharts[p]) = 2
        /\ \E r \in DerivedRepoNames(urCharts[p]) :
              /\ SharingCount(urCharts[p], r) = 2
              /\ Len(Registrations(p, r)) = 2
              /\ Registrations(p, r)[1][3] = FALSE
              /\ Registrations(p, r)[2][3] = TRUE

\* p's returned UpdateRepos call ran the global refresh and it failed.
RefreshFailed(p) ==
    /\ SyncReturned(p)
    /\ trace[p] # << >>
    /\ Last(trace[p])[1] = "repo update"
    /\ Last(trace[p])[3] # Nil

\* C7 as stated: a failed global refresh makes UpdateRepos return an error,
\* and the repositories registered in the pass stay registered.
C7_Original ==
    \A p \in Procs :
        RefreshFailed(p) => resp[p].err # Nil /\ addedRepos[p] \subseteq repos

\* C7 (amended): a failed global refresh is only logged: UpdateRepos returns
\* nil to its caller, and the repositories registered in the pass stay
\* registered.
C7_RefreshFailureSwallowed ==
    \A p \in Procs :
        RefreshFailed(p) =>
            /\ resp[p].err = Nil
            /\ addedRepos[p] # {}
            /\ addedRepos[p] \subseteq repos

\* A returned pass that registered a repository and whose refresh failed.
C7_Witness ==
    \E p \in Procs : RefreshFailed(p) /\ addedRepos[p] # {}

\* p's step is a whole request of kind k.
Requests(p, k) ==
    pc[p] \in { "idle", "done" } /\ opsLeft' < opsLeft /\ kind'[p] = k

BackendErr(p) == trace[p][1][3]

\* C9 as stated: DELETE answers 404 exactly when the backend reports the
\* release as not found, 500 for every other uninstall error whatever its
\* text, and 200 only when the uninstall succeeded.
C9_Original ==
    \A p \in Procs :
        (kind[p] = "UninstallRelease" /\ pc[p] = "done") =>
            /\ resp[p].code = 404 <=> Contains(BackendErr(p), ErrReleaseNotFound)
            /\ resp[p].code = 500 <=>
                   (BackendErr(p) # Nil /\ ~Contains(BackendErr(p), ErrReleaseNotFound))
            /\ resp[p].code = 200 <=> BackendErr(p) = Nil

\* What the helm subprocess of p's status request returned.
StatusRun(p) == trace[p][1][3]

\* C10 as stated: the status request is answered 404 only when the release
\* does not exist (helm reports it as not found); a subprocess that cannot be
\* started or exits with another error, and output that is not valid JSON,
\* are answered with 500.
C10_Original ==
    \A p \in Procs :
        (kind[p] = "GetReleaseStatus" /\ pc[p] = "done") =>
            /\ resp[p].code = 404 => Contains(StatusRun(p).stderr, ErrReleaseNotFound)
            /\ (resp[p].code # 200 /\ ~Contains(StatusRun(p).stderr, ErrReleaseNotFound)) =>
                   resp[p].code = 500

\* No catalog entry carries the chart name of p's install request.
AbsentFromCatalog(p) == \A i \in 1..Len(Catalog) : Catalog[i].Name # reqChart[p]

\* InstallChart returned a release to p's handler: its last external call is
\* a backend install that gave no error.
ReturnedRelease(p) ==
    /\ trace[p] # << >>
    /\ Last(trace[p])[1] = "install"
    /\ Last(trace[p])[3] = Nil

\* C11: an install request for a chart name absent from the catalog is
\* answered 404 without any Helm client operation; for a chart of the
\* catalog every error of InstallChart (duplicate release, chart resolution
\* or load failure, backend failure) is answered 500, and 200 is answered
\* only when InstallChart returned a release.
C11_InstallStatusCodes ==
    \A p \in Procs :
        kind[p] = "InstallChart" =>
            /\ AbsentFromCatalog(p) =>
                   /\ pc[p] = "done"
                   /\ resp[p].code = 404
                   /\ trace[p] = << >>
            /\ (~AbsentFromCatalog(p) /\ pc[p] = "done") =>
                   /\ resp[p].code = 200 <=> ReturnedRelease(p)
                   /\ resp[p].code = 500 <=> ~ReturnedRelease(p)
                   /\ ~ReturnedRelease(p) => resp[p].err # Nil
                   /\ ReturnedRelease(p) => resp[p].name = releaseName[p]

\* One request for a chart the catalog does not hold answered 404, and one
\* for a catalog chart answered 500 after the backend install failed.
C11_Witness ==
    /\ \E p \in Procs :
          /\ kind[p] = "InstallChart" /\ pc[p] = "done"
          /\ reqChart[p] = "ghost" /\ resp[p].code = 404
    /\ \E p \in Procs :
          /\ kind[p] = "InstallChart" /\ pc[p] = "done"
          /\ ~AbsentFromCatalog(p) /\ resp[p].code = 500
          /\ Last(trace[p])[1] = "install"

\* ------------------------------------------------- the catalog service
\* Longest catalog file loaded.
MaxCatalog == 3

\* Entries a catalog file can hold: two of them can carry the same Name.
ChartMetas ==
    [Name : { "nginx", "redis" },
     Chart : { << "bitnami", "/", "nginx" >>, << "plain" >> },
     RepoURL : { "u1" }]

\* The lists NewService can load, in file order.
CatalogInputs == UNION { [1..n -> ChartMetas] : n \in 0..MaxCatalog }

\* Names a caller can ask for.
LookupNames == { "nginx", "redis", "ghost" }

\* The service as NewService returns it (service.go lines 43-46).
InitCatalog ==
    /\ Fresh /\ opsLeft = 0 /\ CliIdle /\ MetIdle /\ StrIdle /\ LstIdle /\ MainIdle
    /\ svcCharts \in CatalogInputs
    /\ lookup = NoLookup
    /\ listed = << >>

\* Service.GetChartByName(name) (service.go lines 53-60).
ServiceGetChartByName(name) ==
    /\ UNCHANGED notCatVars
    /\ LET k == LookupChart(svcCharts, name)
       IN  lookup' = [called |-> TRUE,
                      name |-> name,
                      chart |-> IF k = 0 THEN NoChart ELSE svcCharts[k],
                      err |-> IF k = 0 THEN ErrChartNotFound(name) ELSE Nil]
    /\ UNCHANGED << svcCharts, listed >>

\* Service.GetAvailableCharts() (service.go lines 49-51).
GetAvailableCharts ==
    /\ UNCHANGED notCatVars
    /\ listed' = svcCharts
    /\ UNCHANGED << svcCharts, lookup >>

NextCatalog ==
    \/ \E name \in LookupNames : ServiceGetChartByName(name)
    \/ GetAvailableCharts

SpecCatalog == InitCatalog /\ [][NextCatalog]_vars

\* Positions of the catalog entries that carry a Name.
Matches(charts, name) == { i \in 1..Len(charts) : charts[i].Name = name }

\* C12: GetChartByName(name) returns the first entry, in load order, whose
\* Name equals name, and the not-found error exactly when no entry has that
\* Name; no call changes the catalog the service was constructed with.
C12_FirstMatchLookup ==
    [][/\ svcCharts' = svcCharts
       /\ lookup' # lookup =>
              LET hits == Matches(svcCharts, lookup'.name) IN
              /\ lookup'.name \in LookupNames
              /\ lookup'.err # Nil <=> hits = {}
              /\ hits = {} => lookup'.err = ErrChartNotFound(lookup'.name)
              /\ hits # {} =>
                     \E i \in hits :
                         /\ \A j \in hits : i <= j
                         /\ lookup'.chart = svcCharts[i]]_vars

\* A lookup answered with the first of two different entries the catalog
\* holds under the asked Name, the catalog having been listed as loaded.
C12_Witness ==
    /\ lookup.called
    /\ lookup.err = Nil
    /\ \E i, j \in Matches(svcCharts, lookup.name) :
          i < j /\ svcCharts[i] # svcCharts[j] /\ lookup.chart = svcCharts[i]
    /\ listed = svcCharts

\* ------------------------------------------- the client and its namespace
\* Namespaces APP_INSTALL_NAMESPACE can name.
Namespaces == { AppInstallNamespace, "staging" }

\* The configurations main can hand to NewHelmClient.
Configs == [AppInstallNamespace : Namespaces, KubeconfigPath : { "", "kubeconfig" }]

ErrInit == << "invalid", "configuration:", "no", "configuration", "has", "been", "provided" >>
ErrNsNotFound == << "namespaces", "not", "found" >>

\* What the cluster can answer during construction.
Backends == [init : { Nil, ErrInit }, nsGet : { Nil, ErrNsNotFound, ErrUnreachable }]

ErrNoKubeconfig ==
    << "kubeconfig", "path", "is", "not", "set", "for", "out-of-cluster", "configuration" >>
ErrInitFailed(err) ==
    << "failed", "to", "initialize", "Helm", "action", "configuration:" >> \o err

\* What the optional namespace check logs (client.go lines 69-75).
NamespaceLog(nsErr) ==
    IF nsErr = Nil THEN ""
    ELSE IF Contains(nsErr, NotFoundText) THEN "namespace not found"
    ELSE "error checking namespace"

\* A constructor that refuses a cluster without the target namespace.
NewHelmClient_NamespaceRequired(c, inC, b) ==
    IF (~inC /\ c.KubeconfigPath = "") \/ b.init # Nil \/ b.nsGet # Nil
    THEN [client |-> NoClient, err |-> ErrNoKubeconfig, log |-> ""]
    ELSE [client |-> [built |-> TRUE, actionNs |-> c.AppInstallNamespace,
                      kubeConfig |-> IF inC THEN "" ELSE c.KubeconfigPath],
          err |-> Nil, log |-> ""]

\* NewHelmClient(cfg, kubeClientset) in an environment where the process is
\* in-cluster or not and the cluster answers as b says (client.go lines
\* 37-77).
NewHelmClient(c, inC, b) ==
    IF ~inC /\ c.KubeconfigPath = ""
    THEN [client |-> NoClient, err |-> ErrNoKubeconfig, log |-> ""]
    ELSE IF b.init # Nil
    THEN [client |-> NoClient, err |-> ErrInitFailed(b.init), log |-> ""]
    ELSE [client |-> [built |-> TRUE, actionNs |-> c.AppInstallNamespace,
                      kubeConfig |-> IF inC THEN "" ELSE c.KubeconfigPath],
          err |-> Nil, log |-> NamespaceLog(b.nsGet)]

\* The process before main constructs the client.
InitClient ==
    /\ Fresh /\ opsLeft = 0 /\ CatIdle /\ MetIdle /\ StrIdle /\ LstIdle /\ MainIdle
    /\ cfg \in Configs
    /\ inCluster \in BOOLEAN
    /\ backend \in Backends
    /\ client = NoClient
    /\ ctor = NoCtor
    /\ target = NoTarget

\* main calls NewHelmClient, once.
Construct ==
    /\ UNCHANGED notCliVars
    /\ ~ctor.called
    /\ LET r == NewHelmClient(cfg, inCluster, backend)
       IN  /\ client' = r.client
           /\ ctor' = [called |-> TRUE, err |-> r.err, log |-> r.log]
    /\ UNCHANGED << cfg, inCluster, backend, target >>

\* Release names a request path can carry.
ClientNames == { "web", "kube-system" }

\* Install request bodies: the release name, and a namespace the caller
\* asks for among the chart values.
ClientInstallRequests == [release_name : { "", "web" }, namespace : { "", "kube-system" }]

\* An install that takes the namespace of the chart resources from the
\* request when it names one.
InstallNamespaces_FromRequest(hc, c, req) ==
    [store |-> hc.actionNs,
     resources |-> IF req.namespace # "" THEN req.namespace ELSE c.AppInstallNamespace]

\* The namespaces InstallChart names: hc.actionConfig for the release
\* record, client.Namespace for the chart resources (client.go lines
\* 153-154).
InstallNamespaces(hc, c, req) ==
    [store |-> hc.actionNs, resources |-> c.AppInstallNamespace]

\* The namespace of list and uninstall: the one hc.actionConfig was
\* initialised with (client.go lines 199, 262).
ActionNamespace(hc) == hc.actionNs

\* The -n argument of the helm status subprocess (client.go line 279).
StatusNamespace(c) == c.AppInstallNamespace

\* What an operation of the client leaves behind: its name, its argument,
\* the namespace the request asked for and the namespaces it named.
TargetOf(op, arg, asked, store, resources) ==
    [op |-> op, arg |-> arg, asked |-> asked, store |-> store, resources |-> resources]

ClientInstall(req) ==
    /\ UNCHANGED notCliVars
    /\ client.built
    /\ LET ns == InstallNamespaces(client, cfg, req)
       IN  target' = TargetOf("InstallChart", req.release_name, req.namespace,
                              ns.store, ns.resources)
    /\ UNCHANGED << cfg, inCluster, backend, client, ctor >>

ClientList ==
    /\ UNCHANGED notCliVars
    /\ client.built
    /\ target' = TargetOf("ListInstalledReleases", "", "",
                          ActionNamespace(client), ActionNamespace(client))
    /\ UNCHANGED << cfg, inCluster, backend, client, ctor >>

ClientUninstall(name) ==
    /\ UNCHANGED notCliVars
    /\ client.built
    /\ target' = TargetOf("UninstallRelease", name, "",
                          ActionNamespace(client), ActionNamespace(client))
    /\ UNCHANGED << cfg, inCluster, backend, client, ctor >>

ClientStatus(name) ==
    /\ UNCHANGED notCliVars
    /\ client.built
    /\ target' = TargetOf("GetReleaseStatus", name, "",
                          StatusNamespace(cfg), StatusNamespace(cfg))
    /\ UNCHANGED << cfg, inCluster, backend, client, ctor >>

NextClient ==
    \/ Construct
    \/ \E req \in ClientInstallRequests : ClientInstall(req)
    \/ ClientList
    \/ \E name \in ClientNames : ClientUninstall(name)
    \/ \E name \in ClientNames : ClientStatus(name)

SpecClient == InitClient /\ [][NextClient]_vars

\* C13: the namespace bound to the client at construction never changes,
\* and every install, list, uninstall and status names exactly that
\* namespace, whatever the request carries.
C13_OneNamespace ==
    [][/\ client.built => (client' = client /\ cfg' = cfg)
       /\ client'.built => client'.actionNs = cfg.AppInstallNamespace
       /\ target' # target =>
              /\ target'.store = client.actionNs
              /\ target'.resources = client.actionNs]_vars

\* An install whose request asks for another namespace, made on the
\* namespace the client was constructed with.
C13_Witness ==
    /\ client.built /\ client.actionNs = "staging"
    /\ target.op = "InstallChart" /\ target.asked = "kube-system"
    /\ target.store = "staging" /\ target.resources = "staging"

\* C18: NewHelmClient returns no client and an error exactly when the
\* process is out of cluster with an empty kubeconfig path or the Helm
\* action configuration fails to initialise; a missing target namespace or
\* an error while checking it never fails the construction.
C18_ConstructionErrors ==
    ctor.called =>
        /\ ctor.err # Nil <=>
               \/ ~inCluster /\ cfg.KubeconfigPath = ""
               \/ backend.init # Nil
        /\ client.built <=> ctor.err = Nil

\* A client constructed although the target namespace does not exist.
C18_Witness ==
    /\ ctor.called /\ ctor.err = Nil /\ client.built
    /\ backend.nsGet = ErrNsNotFound
    /\ ctor.log = "namespace not found"

\* ------------------------------------------------- the metrics service
\* Most nodes, and most node metrics, a list query returns.
MaxNodes == 2

NodeNames == { "n1", "n2", "n3" }

\* A node as the snapshot reads it: its name and its allocatable CPU
\* (millicores) and memory (bytes).
NodeRecs == [Name : NodeNames, cpuAlloc : { 0, 20 }, memAlloc : { 0, 4 }]

\* A node metrics entry: the node's name and its usage.
MetricRecs == [Name : NodeNames, cpu : { 5, 30 }, mem : { 1 }]

\* Lists of at most n items of S whose names are all different.
NamedLists(S, n) ==
    { l \in UNION { [1..k -> S] : k \in 0..n } :
          \A i, j \in 1..Len(l) : i # j => l[i].Name # l[j].Name }

ErrTimeout == << "context", "deadline", "exceeded" >>
ErrMetricsClient == << "metrics", "client", "not", "initialized" >>
ErrListNodeMetrics(err) == << "failed", "to", "list", "node", "metrics:" >> \o err
ErrListNodes(err) == << "failed", "to", "list", "nodes:" >> \o err

\* What the two list queries can answer.
QueryErrs == [nodeMetrics : { Nil, ErrTimeout }, nodes : { Nil, ErrTimeout }]

\* A float64 quotient, kept as the pair it is the quotient of.
Zero == [num |-> 0, den |-> 1]

\* A percentage computed without looking at the capacity.
Percent_Unguarded(usage, capacity) == [num |-> usage * 100, den |-> capacity]

\* float64(usage*100) / float64(capacity) behind its capacity > 0 guard, 0.0
\* otherwise (service.go lines 91-98 and 111-118).
Percent(usage, capacity) ==
    IF capacity > 0 THEN [num |-> usage * 100, den |-> capacity] ELSE Zero

RECURSIVE FindMetrics(_, _, _)
\* The inner loop over nodeMetricsList.Items: position of the first entry
\* with the node's name, 0 when there is none (service.go lines 63-70).
FindMetrics(items, name, i) ==
    IF i > Len(items) THEN 0
    ELSE IF items[i].Name = name THEN i
    ELSE FindMetrics(items, name, i + 1)

\* The NodeMetrics value built for one node (service.go lines 61-108).
NodeRow(node, items) ==
    LET k == FindMetrics(items, node.Name, 1)
        cpu == IF k = 0 THEN 0 ELSE items[k].cpu
        mem == IF k = 0 THEN 0 ELSE items[k].mem
    IN  [Name |-> node.Name,
         CPUUsageMilliCores |-> cpu,
         MemoryUsageBytes |-> mem,
         CPUAvailableMilliCores |-> node.cpuAlloc,
         MemoryAvailableBytes |-> node.memAlloc,
         CPUUsagePercentage |-> Percent(cpu, node.cpuAlloc),
         MemUsagePercentage |-> Percent(mem, node.memAlloc)]

\* A loop that leaves out the nodes the Metrics Server knows nothing about.
Appended_OnlyWithMetrics(node, items) ==
    IF FindMetrics(items, node.Name, 1) = 0 THEN << >> ELSE << NodeRow(node, items) >>

\* What one iteration appends to detailedNodeMetrics (service.go lines
\* 100-108).
Appended(node, items) == << NodeRow(node, items) >>

NoTotals == [rows |-> << >>, cpuUsage |-> 0, cpuCapacity |-> 0, memUsage |-> 0, memCapacity |-> 0]

RECURSIVE RangeNodes(_, _, _, _)
\* The loop over nodes.Items from position i on, acc holding the list and
\* the four totals built so far (service.go lines 60-109).
RangeNodes(nodes, items, i, acc) ==
    IF i > Len(nodes) THEN acc
    ELSE LET row == NodeRow(nodes[i], items)
         IN  RangeNodes(nodes, items, i + 1,
                 [rows |-> acc.rows \o Appended(nodes[i], items),
                  cpuUsage |-> acc.cpuUsage + row.CPUUsageMilliCores,
                  cpuCapacity |-> acc.cpuCapacity + row.CPUAvailableMilliCores,
                  memUsage |-> acc.memUsage + row.MemoryUsageBytes,
                  memCapacity |-> acc.memCapacity + row.MemoryAvailableBytes])

\* The ClusterMetrics value returned for the two lists (service.go lines
\* 56-129).
ClusterMetricsOf(nodes, items) ==
    LET t == RangeNodes(nodes, items, 1, NoTotals)
    IN  [TotalCPUUsageMilliCores |-> t.cpuUsage,
         TotalCPUCapacityMilliCores |-> t.cpuCapacity,
         TotalMemoryUsageBytes |-> t.memUsage,
         TotalMemoryCapacityBytes |-> t.memCapacity,
         AverageCPUUsagePercentage |-> Percent(t.cpuUsage, t.cpuCapacity),
         AverageMemUsagePercentage |-> Percent(t.memUsage, t.memCapacity),
         Nodes |-> t.rows]

\* A snapshot that goes on with an empty node list when the node list
\* query fails.
SnapshotError_NodesUnchecked(clientNil, q) ==
    IF clientNil THEN ErrMetricsClient
    ELSE IF q.nodeMetrics # Nil THEN ErrListNodeMetrics(q.nodeMetrics)
    ELSE Nil

\* The error returns of GetClusterMetricsSnapshot, in their order
\* (service.go lines 32-34, 41-44, 50-53).
SnapshotError(clientNil, q) ==
    IF clientNil THEN ErrMetricsClient
    ELSE IF q.nodeMetrics # Nil THEN ErrListNodeMetrics(q.nodeMetrics)
    ELSE IF q.nodes # Nil THEN ErrListNodes(q.nodes)
    ELSE Nil

\* Service.GetClusterMetricsSnapshot() (service.go lines 30-130).
GetClusterMetricsSnapshot(clientNil, q, nodes, items) ==
    LET err == SnapshotError(clientNil, q)
    IN  IF err # Nil THEN [err |-> err, metrics |-> << >>]
        ELSE [err |-> Nil, metrics |-> ClusterMetricsOf(nodes, items)]

\* A service and the cluster it looks at.
InitMetrics ==
    /\ Fresh /\ opsLeft = 0 /\ CatIdle /\ CliIdle /\ StrIdle /\ LstIdle /\ MainIdle
    /\ metricsClientNil \in BOOLEAN
    /\ nodeItems \in NamedLists(NodeRecs, MaxNodes)
    /\ metricItems \in NamedLists(MetricRecs, MaxNodes)
    /\ queryErrs \in QueryErrs
    /\ snap = NoSnap

\* A caller takes a snapshot.
TakeSnapshot ==
    /\ UNCHANGED notMetVars
    /\ LET r == GetClusterMetricsSnapshot(metricsClientNil, queryErrs, nodeItems, metricItems)
       IN  snap' = [called |-> TRUE, err |-> r.err, metrics |-> r.metrics]
    /\ UNCHANGED << metricsClientNil, nodeItems, metricItems, queryErrs >>

NextMetrics == TakeSnapshot

SpecMetrics == InitMetrics /\ [][NextMetrics]_vars

\* The quotient p is num / den.
IsRatio(p, num, den) == p.den > 0 /\ p.num * den = num * p.den

\* A percentage as C14 asks for it: 0 over a zero capacity, else
\* usage * 100 / capacity.
IsPercentOf(p, usage, capacity) ==
    IF capacity = 0 THEN p = Zero ELSE IsRatio(p, usage * 100, capacity)

\* Both list queries answer and the service has a metrics client.
QueriesAnswer ==
    ~metricsClientNil /\ queryErrs.nodeMetrics = Nil /\ queryErrs.nodes = Nil

\* C14: a node whose allocatable CPU or memory is zero gets the percentage 0
\* for that resource and the snapshot still succeeds; the cluster average
\* is 0 when the total capacity is zero; in every other case the percentage
\* is usage * 100 / capacity.
C14_Percentages ==
    snap.called =>
        /\ QueriesAnswer => snap.err = Nil
        /\ snap.err = Nil =>
               LET cm == snap.metrics IN
               /\ \A i \in 1..Len(cm.Nodes) :
                      LET r == cm.Nodes[i] IN
                      /\ IsPercentOf(r.CPUUsagePercentage,
                                     r.CPUUsageMilliCores, r.CPUAvailableMilliCores)
                      /\ IsPercentOf(r.MemUsagePercentage,
                                     r.MemoryUsageBytes, r.MemoryAvailableBytes)
               /\ IsPercentOf(cm.AverageCPUUsagePercentage,
                              cm.TotalCPUUsageMilliCores, cm.TotalCPUCapacityMilliCores)
               /\ IsPercentOf(cm.AverageMemUsagePercentage,
                              cm.TotalMemoryUsageBytes, cm.TotalMemoryCapacityBytes)

\* A snapshot of two nodes: one without allocatable CPU, reported with usage
\* and 0 percent, one with capacity and a percentage above 0; the cluster
\* has no allocatable memory at all.
C14_Witness ==
    /\ snap.called /\ snap.err = Nil
    /\ \E i, j \in 1..Len(snap.metrics.Nodes) :
          /\ snap.metrics.Nodes[i].CPUAvailableMilliCores = 0
          /\ snap.metrics.Nodes[i].CPUUsageMilliCores > 0
          /\ snap.metrics.Nodes[i].CPUUsagePercentage = Zero
          /\ snap.metrics.Nodes[j].CPUAvailableMilliCores = 20
          /\ snap.metrics.Nodes[j].CPUUsagePercentage = [num |-> 500, den |-> 20]
    /\ snap.metrics.TotalMemoryCapacityBytes = 0
    /\ snap.metrics.TotalMemoryUsageBytes > 0
    /\ snap.metrics.AverageMemUsagePercentage = Zero

RECURSIVE SumField(_, _)
\* Sum of field f over a list of records.
SumField(l, f) == IF l = << >> THEN 0 ELSE Head(l)[f] + SumField(Tail(l), f)

\* The node metrics entries that carry a node's name.
MetricsFor(name) == { k \in 1..Len(metricItems) : metricItems[k].Name = name }

\* C15: the per-node list of a snapshot has exactly one entry per node of
\* the node list, in its order; a node without a node metrics entry appears
\* with usage 0 and its capacity; the cluster totals are the sums of the
\* per-node values.
C15_OneRowPerNode ==
    (snap.called /\ snap.err = Nil) =>
        LET cm == snap.metrics IN
        /\ Len(cm.Nodes) = Len(nodeItems)
        /\ \A i \in 1..Len(cm.Nodes) :
               LET r == cm.Nodes[i]
                   n == nodeItems[i] IN
               /\ r.Name = n.Name
               /\ r.CPUAvailableMilliCores = n.cpuAlloc
               /\ r.MemoryAvailableBytes = n.memAlloc
               /\ MetricsFor(n.Name) = {} =>
                      r.CPUUsageMilliCores = 0 /\ r.MemoryUsageBytes = 0
               /\ \A k \in MetricsFor(n.Name) :
                      /\ r.CPUUsageMilliCores = metricItems[k].cpu
                      /\ r.MemoryUsageBytes = metricItems[k].mem
        /\ cm.TotalCPUUsageMilliCores = SumField(cm.Nodes, "CPUUsageMilliCores")
        /\ cm.TotalMemoryUsageBytes = SumField(cm.Nodes, "MemoryUsageBytes")
        /\ cm.TotalCPUCapacityMilliCores = SumField(nodeItems, "cpuAlloc")
        /\ cm.TotalMemoryCapacityBytes = SumField(nodeItems, "memAlloc")
        /\ cm.TotalCPUCapacityMilliCores = SumField(cm.Nodes, "CPUAvailableMilliCores")
        /\ cm.TotalMemoryCapacityBytes = SumField(cm.Nodes, "MemoryAvailableBytes")

\* A snapshot of two nodes of which only the second has a node metrics
\* entry, the Metrics Server also reporting a node the cluster does not list.
C15_Witness ==
    /\ snap.called /\ snap.err = Nil
    /\ Len(nodeItems) = 2 /\ Len(snap.metrics.Nodes) = 2
    /\ MetricsFor(nodeItems[1].Name) = {}
    /\ MetricsFor(nodeItems[2].Name) # {}
    /\ \E k \in 1..Len(metricItems) :
          \A i \in 1..Len(nodeItems) : nodeItems[i].Name # metricItems[k].Name
    /\ snap.metrics.Nodes[1].CPUUsageMilliCores = 0
    /\ snap.metrics.Nodes[1].CPUAvailableMilliCores = 20
    /\ snap.metrics.TotalCPUCapacityMilliCores = 40
    /\ snap.metrics.TotalCPUUsageMilliCores = 30

\* C16 as stated: GetClusterMetricsSnapshot returns an error exactly when
\* the node metrics list query or the node list query fails.
C16_Original ==
    snap.called =>
        (snap.err # Nil <=> (queryErrs.nodeMetrics # Nil \/ queryErrs.nodes # Nil))

\* C16: GetClusterMetricsSnapshot returns an error exactly when the service
\* has no metrics client, or the node metrics list query fails, or the node
\* list query fails; otherwise it returns a snapshot.
C16_ErrorCases ==
    snap.called =>
        /\ snap.err # Nil <=>
               \/ metricsClientNil
               \/ queryErrs.nodeMetrics # Nil
               \/ queryErrs.nodes # Nil
        /\ snap.err = Nil <=> snap.metrics # << >>
        /\ metricsClientNil => snap.err = ErrMetricsClient

\* A service without metrics client answers with an error although both
\* list queries would be answered.
C16_Witness ==
    /\ snap.called /\ metricsClientNil
    /\ queryErrs = NoQueryErrs
    /\ snap.err = ErrMetricsClient

\* ----------------------------------------------------- the metrics stream
\* Ticks the polling goroutine takes from its ticker.
MaxTicks == 3

\* The handler has made messageChan and started the polling goroutine; it
\* is about to call c.Stream (handlers.go lines 133-176).
InitStream ==
    /\ Fresh /\ opsLeft = 0 /\ CatIdle /\ CliIdle /\ MetIdle /\ LstIdle /\ MainIdle
    /\ ctxDone = FALSE
    /\ handlerPc = "stream"
    /\ pollPc = "select"
    /\ messageChan = "open"
    /\ ticks = 0
    /\ written = 0

\* The client goes away: the server cancels the request context.
Cancel ==
    /\ UNCHANGED notStrVars
    /\ ~ctxDone
    /\ handlerPc # "returned"
    /\ ctxDone' = TRUE
    /\ UNCHANGED << handlerPc, pollPc, messageChan, ticks, written >>

\* The handler returns: its deferred function closes messageChan
\* (handlers.go lines 134-137).
Return ==
    /\ handlerPc' = "returned"
    /\ messageChan' = "closed"

\* c.Stream, top of its loop: it returns when the client is gone, else it
\* calls the step function, which waits on messageChan (handlers.go lines
\* 176-177).
H_Stream ==
    /\ UNCHANGED notStrVars
    /\ handlerPc = "stream"
    /\ IF ctxDone THEN Return
       ELSE handlerPc' = "recv" /\ UNCHANGED messageChan
    /\ UNCHANGED << ctxDone, pollPc, ticks, written >>

\* The unbuffered channel hands a message over: the send of the polling
\* goroutine and the receive of the step function meet (handlers.go lines
\* 170 and 177).
H_Recv ==
    /\ UNCHANGED notStrVars
    /\ handlerPc = "recv"
    /\ pollPc = "send"
    /\ messageChan = "open"
    /\ handlerPc' = "write"
    /\ pollPc' = "select"
    /\ UNCHANGED << ctxDone, messageChan, ticks, written >>

\* The outcomes of writing to the response: a write to a client that is
\* gone can fail.
WriteOutcomes == IF ctxDone THEN { TRUE, FALSE } ELSE { TRUE }

\* The step function writes the event; a failed write ends the stream
\* (handlers.go lines 178-182).
H_Write ==
    /\ UNCHANGED notStrVars
    /\ handlerPc = "write"
    /\ \E ok \in WriteOutcomes :
          IF ok
          THEN /\ written' = written + 1
               /\ handlerPc' = "stream"
               /\ UNCHANGED messageChan
          ELSE /\ Return
               /\ UNCHANGED written
    /\ UNCHANGED << ctxDone, pollPc, ticks >>

\* The select of the polling goroutine takes the Done case (handlers.go
\* lines 146-147).
P_Done ==
    /\ UNCHANGED notStrVars
    /\ pollPc = "select"
    /\ ctxDone
    /\ pollPc' = "exited"
    /\ UNCHANGED << ctxDone, handlerPc, messageChan, ticks, written >>

\* The select takes the ticker case (handlers.go line 148).
P_Tick ==
    /\ UNCHANGED notStrVars
    /\ pollPc = "select"
    /\ ticks < MaxTicks
    /\ ticks' = ticks + 1
    /\ pollPc' = "snapshot"
    /\ UNCHANGED << ctxDone, handlerPc, messageChan, written >>

\* The tick is served: without a metrics service, with a failed snapshot or
\* a failed marshal the loop continues, else the goroutine goes on to send
\* (handlers.go lines 149-170).
P_Snapshot ==
    /\ UNCHANGED notStrVars
    /\ pollPc = "snapshot"
    /\ pollPc' \in { "select", "send" }
    /\ UNCHANGED << ctxDone, handlerPc, messageChan, ticks, written >>

\* A send on the closed channel panics.
P_SendClosed ==
    /\ UNCHANGED notStrVars
    /\ pollPc = "send"
    /\ messageChan = "closed"
    /\ pollPc' = "panicked"
    /\ UNCHANGED << ctxDone, handlerPc, messageChan, ticks, written >>

\* The steps of the handler goroutine, and those of the polling goroutine.
Handler == H_Stream \/ H_Recv \/ H_Write
Poller == P_Done \/ P_Tick \/ P_Snapshot \/ P_SendClosed

NextStream ==
    \/ Cancel
    \/ H_Stream
    \/ H_Recv
    \/ H_Write
    \/ P_Done
    \/ P_Tick
    \/ P_Snapshot
    \/ P_SendClosed

SpecStream == InitStream /\ [][NextStream]_vars

\* The Go scheduler runs a goroutine that can take a step.
SpecStreamLive ==
    /\ SpecStream
    /\ WF_vars(Handler)
    /\ WF_vars(Poller)

\* C17 as stated: once the request context is cancelled the stream stops in
\* every interleaving: the polling goroutine exits and the handler
\* eventually returns.
C17_Original ==
    ctxDone ~> (pollPc = "exited" /\ handlerPc = "returned")

\* The handler waits on messageChan after the polling goroutine has left on
\* the cancelled context: nothing will be sent and nothing closes the
\* channel.
C17_Stuck ==
    /\ ctxDone
    /\ pollPc = "exited"
    /\ handlerPc = "recv"
    /\ messageChan = "open"

\* ------------------------------------------------ installs side by side
\* Two operations in all, one for each goroutine or both for one of them.
InitPair == Fresh /\ opsLeft = Cardinality(Procs) /\ RestIdle

\* Two requests served side by side.
SpecPair == InitPair /\ [][Next]_vars

\* Goroutine q is inside InstallChart for release `name`, past its
\* pre-check and not yet back from the backend install.
PastPreCheck(q, name) ==
    /\ kind[q] = "InstallChart"
    /\ releaseName[q] = name
    /\ pc[q] \in { "ic_locate1", "ic_update", "ur_lock", "ur_loop",
                   "ic_locate2", "ic_load", "ic_run" }

\* C19: the pre-check and the backend install of InstallChart are not one
\* atomic step and no lock is held per release name: while a goroutine is
\* between its pre-check and its backend install of a name, another
\* goroutine's pre-check of that name and its backend install can run, so
\* two concurrent installs of a name without a release can both pass the
\* pre-check and both issue the backend install.
C19_NoPerNameLock ==
    \A p, q \in Procs :
        (p # q /\ kind[p] = "InstallChart" /\ PastPreCheck(q, releaseName[p])) =>
            /\ pc[p] = "ic_history" => ENABLED IC_History(p)
            /\ pc[p] = "ic_run" => ENABLED IC_Run(p)

\* The pre-check of p's install found no release.
PassedPreCheck(p) ==
    /\ Len(Entries(p, "history")) = 1
    /\ PreCheck(Entries(p, "history")[1][3]) = "go"
    /\ Entries(p, "history")[1][3].n = 0

\* Two installs of the name "web": both pre-checks found no release and
\* both backend installs were issued, the first one creating the release
\* and the second one being refused by the backend.
C19_Witness ==
    \E p, q \in Procs :
        /\ p # q
        /\ kind[p] = "InstallChart" /\ kind[q] = "InstallChart"
        /\ releaseName[p] = "web" /\ releaseName[q] = "web"
        /\ PassedPreCheck(p) /\ PassedPreCheck(q)
        /\ Len(Entries(p, "install")) = 1 /\ Entries(p, "install")[1][3] = Nil
        /\ Len(Entries(q, "install")) = 1 /\ Entries(q, "install")[1][3] = ErrNameInUse

\* C20: repoUpdateMu is held only by a goroutine inside an UpdateRepos
\* pass, and while a goroutine is inside a pass every other goroutine's
\* install pre-check, LocateChart, chart load and backend install can run,
\* and a list, uninstall or status request can start and complete, none of
\* them waiting for the pass.
C20_OnlySyncLocks ==
    /\ \A q \in Procs : repoUpdateMu = q => InPass(q)
    /\ \A p, q \in Procs :
           (p # q /\ InPass(q)) =>
               /\ pc[p] = "ic_history" => ENABLED IC_History(p)
               /\ pc[p] = "ic_locate1" => ENABLED IC_Locate1(p)
               /\ pc[p] = "ic_locate2" => ENABLED IC_Locate2(p)
               /\ pc[p] = "ic_load" => ENABLED IC_Load(p)
               /\ pc[p] = "ic_run" => ENABLED IC_Run(p)
               /\ CanStart(p) =>
                      /\ ENABLED ListReleasesHandler(p)
                      /\ \A n \in TargetNames :
                             /\ ENABLED UninstallReleaseHandler(p, n)
                             /\ ENABLED GetReleaseStatusHandler(p, n)

\* A goroutine is inside a pass that has registered the repository
\* "bitnami"; the install of another goroutine resolved its chart from that
\* repository at the first attempt, so during the pass, and went on to
\* install the release.
C20_Witness ==
    \E p, q \in Procs :
        /\ p # q
        /\ kind[q] = "UpdateRepos" /\ InPass(q) /\ repoUpdateMu = q
        /\ \E i \in 1..Len(trace[q]) :
              trace[q][i] = << "repo add", << "bitnami" >>, TRUE >>
        /\ kind[p] = "InstallChart" /\ pc[p] = "done" /\ resp[p].code = 200
        /\ chartDef[p] = ChartNginx
        /\ Len(Entries(p, "locate")) = 1 /\ Entries(p, "locate")[1][3] = Nil
        /\ Entries(p, "UpdateRepos") = << >>
        /\ Len(Entries(p, "install")) = 1

\* ------------------------------------------------------------- progress
\* The steps of goroutine p that call the Helm backend or run a helm
\* command: each of them returns.
Running(p) ==
    \/ UR_Loop(p)
    \/ UR_Refresh(p)
    \/ IC_History(p)
    \/ IC_Locate1(p)
    \/ IC_Update(p)
    \/ IC_Locate2(p)
    \/ IC_Load(p)
    \/ IC_Run(p)

\* Two requests served side by side by a fair scheduler: a goroutine that
\* can run does run, and a goroutine waiting in Lock() gets the mutex when
\* it is free again and again (sync.Mutex hands the lock to a waiter that
\* has waited for more than 1 ms).
SpecPairLive ==
    /\ SpecPair
    /\ \A p \in Procs : WF_vars(Running(p)) /\ SF_vars(UR_Lock(p))

\* p's UpdateRepos call has returned to its caller.
PassReturned(p) == pc[p] = AfterUpdate(p)

\* C21: every UpdateRepos call that waits for repoUpdateMu acquires it and
\* returns, and the step that ends a pass, whatever its registrations and
\* its refresh gave, leaves the mutex free.
C21_PassReturns ==
    /\ \A p \in Procs : (pc[p] = "ur_lock") ~> PassReturned(p)
    /\ [][\A p \in Procs :
             Leaves(p, "ur_loop") => repoUpdateMu = p /\ repoUpdateMu' = "free"]_vars

\* A pass whose refresh failed has returned, and the on-demand sync of
\* another goroutine's install has been through the mutex and returned too.
C21_Witness ==
    \E p, q \in Procs :
        /\ p # q
        /\ RefreshFailed(q)
        /\ kind[p] = "InstallChart" /\ pc[p] = "done"
        /\ Len(Entries(p, "UpdateRepos")) = 1

\* p's step ran a registration and the command failed.
RegistrationFailed(p) ==
    /\ pc[p] = "ur_loop"
    /\ Len(trace'[p]) = Len(trace[p]) + 1
    /\ Last(trace'[p])[1] = "repo add"
    /\ Last(trace'[p])[3] = FALSE

\* The range loop of p's pass has been through every definition.
LoopDone(p) == urIdx[p] = Len(urCharts[p]) + 1

\* C22: a failed registration leaves the pass running, at the definition
\* after the one that failed and still holding the mutex; the loop goes
\* through the definitions one by one, running no command for a definition
\* with an empty repo URL or with a chart reference lacking "/"; the pass
\* ends only after the last definition, and a call that returns gives no
\* error.
C22_FailureDoesNotAbort ==
    [][\A p \in Procs :
          /\ RegistrationFailed(p) =>
                 /\ pc'[p] = "ur_loop"
                 /\ urIdx'[p] = urIdx[p] + 1
                 /\ urCharts'[p] = urCharts[p]
                 /\ repoUpdateMu' = p
                 /\ resp'[p] = resp[p]
          /\ (pc[p] = "ur_loop" /\ ~LoopDone(p)) =>
                 /\ urIdx'[p] \in { urIdx[p], urIdx[p] + 1 }
                 /\ ~Eligible(CurChart(p)) => trace'[p] = trace[p]
          /\ Leaves(p, "ur_loop") =>
                 /\ LoopDone(p)
                 /\ kind[p] = "UpdateRepos" => resp'[p].err = Nil]_vars

\* A pass over the whole catalog has returned: the registration for its
\* first definition failed, the one for its second definition ran and
\* succeeded, and the refresh ran.
C22_Witness ==
    \E p \in Procs :
        /\ SyncReturned(p)
        /\ urCharts[p] = Catalog
        /\ LoopDone(p)
        /\ Len(trace[p]) = 3
        /\ trace[p][1] = << "repo add", << "bitnami" >>, FALSE >>
        /\ trace[p][2] = << "repo add", << "bitnami" >>, TRUE >>
        /\ trace[p][3][1] = "repo update"
        /\ resp[p].err = Nil

\* ------------------------------------------------------ the release listing
\* Longest Service list a lookup returns.
MaxServices == 2

Port(name, port, nodePort) == [Name |-> name, Port |-> port, NodePort |-> nodePort]

\* Port lists of a Service: named and unnamed ports, ports without a node
\* port, and an unnamed port whose number is another port's name.
PortLists ==
    { << Port("http", 80, 30080) >>,
      << Port("", 80, 30081) >>,
      << Port("http", 80, 0) >>,
      << Port("http", 80, 30080), Port("", 443, 30443) >>,
      << Port("", 80, 0), Port("https", 443, 30443) >>,
      << Port("80", 8080, 30080), Port("", 80, 30081) >> }

ServiceTypes == { "ClusterIP", "NodePort", "LoadBalancer" }

ServiceRecs == [Type : ServiceTypes, Ports : PortLists]

\* What Services(namespace).List can return for a label selector, in list
\* order.
ServiceLists == UNION { [1..n -> ServiceRecs] : n \in 0..MaxServices }

\* The releases listClient.Run can return.
ResultLists == { << >>, << "web" >>, << "web", "nginx" >>, << "nginx", "web" >> }

ListRunOutcomes ==
    { [err |-> ErrUnreachable, names |-> << >>] }
    \cup { [err |-> Nil, names |-> l] : l \in ResultLists }

\* fmt.Sprintf("app.kubernetes.io/instance=%s", releaseName): the release
\* the selector names.
LabelSelector(rel) == rel

\* What the Service lookup for a release can answer.
LookupOutcomes(rel) ==
    { [selector |-> LabelSelector(rel), err |-> ErrUnreachable, items |-> << >>] }
    \cup { [selector |-> LabelSelector(rel), err |-> Nil, items |-> l] : l \in ServiceLists }

\* The key of a port in the map: its name, or fmt.Sprintf("%d", port.Port)
\* when the name is empty (client.go lines 245-248).
PortName(port) == IF port.Name = "" THEN ToString(port.Port) ELSE port.Name

\* nodePorts[portName] = nodePort on a map held as a set of pairs.
Put(nodePorts, portName, nodePort) ==
    { e \in nodePorts : e[1] # portName } \cup { << portName, nodePort >> }

RECURSIVE RangePorts(_, _, _)
\* The loop over service.Spec.Ports from position i (client.go lines 243-251).
RangePorts(ports, i, nodePorts) ==
    IF i > Len(ports) THEN nodePorts
    ELSE RangePorts(ports, i + 1,
                    IF ports[i].NodePort > 0
                    THEN Put(nodePorts, PortName(ports[i]), ports[i].NodePort)
                    ELSE nodePorts)

\* A scan that goes through every Service of the list.
StopsScan_Never(nodePorts) == FALSE

\* The break of the loop over the Services (client.go lines 252-254).
StopsScan(nodePorts) == nodePorts # {}

RECURSIVE RangeServices(_, _, _)
\* The loop over serviceList.Items from position i (client.go lines
\* 241-256): the map, and the position of the Service the loop broke at.
RangeServices(items, i, nodePorts) ==
    IF i > Len(items) THEN [nodePorts |-> nodePorts, stopped |-> 0]
    ELSE IF items[i].Type = "NodePort" \/ items[i].Type = "LoadBalancer"
         THEN LET filled == RangePorts(items[i].Ports, 1, nodePorts)
              IN  IF StopsScan(filled)
                  THEN [nodePorts |-> filled, stopped |-> i]
                  ELSE RangeServices(items, i + 1, filled)
         ELSE RangeServices(items, i + 1, nodePorts)

\* HelmClient.getReleaseNodePorts, given the answer of its lookup.
getReleaseNodePorts(answer) ==
    IF answer.err # Nil THEN [nodePorts |-> {}, stopped |-> 0]
    ELSE RangeServices(answer.items, 1, {})

\* A listing that gives up when a Service lookup fails.
EnrichError_Surfaced(lookupErr) == lookupErr

\* The error ListInstalledReleases returns on account of the Service lookup
\* of a release: none, getReleaseNodePorts returns a map and no error
\* (client.go lines 213 and 236-239).
EnrichError(lookupErr) == Nil

\* ListInstalledReleases is about to call listClient.Run.
InitList ==
    /\ Fresh /\ opsLeft = 0 /\ CatIdle /\ CliIdle /\ MetIdle /\ StrIdle /\ MainIdle
    /\ lsPc = "run"
    /\ lsResults = NoResults
    /\ lsIdx = 0
    /\ lsLookup = NoServices
    /\ releasesInfo = << >>
    /\ lsScan = NoScan
    /\ lsOut = NoOut

\* listClient.Run() and the two early returns (client.go lines 202-210).
L_Run ==
    /\ UNCHANGED notLstVars
    /\ lsPc = "run"
    /\ \E o \in ListRunOutcomes :
          /\ lsResults' = o
          /\ IF o.err # Nil
             THEN /\ lsOut' = [err |-> ErrFailedList(o.err), list |-> << >>]
                  /\ lsPc' = "returned"
                  /\ lsIdx' = 0
             ELSE IF o.names = << >>
                  THEN /\ lsOut' = [err |-> Nil, list |-> << >>]
                       /\ lsPc' = "returned"
                       /\ lsIdx' = 0
                  ELSE /\ lsOut' = lsOut
                       /\ lsPc' = "lookup"
                       /\ lsIdx' = 1
    /\ UNCHANGED << lsLookup, releasesInfo, lsScan >>

\* The Services().List call of getReleaseNodePorts for the release the loop
\* is at (client.go lines 231-235).
L_Lookup ==
    /\ UNCHANGED notLstVars
    /\ lsPc = "lookup"
    /\ lsLookup' \in LookupOutcomes(lsResults.names[lsIdx])
    /\ lsPc' = "scan"
    /\ UNCHANGED << lsResults, lsIdx, releasesInfo, lsScan, lsOut >>

\* The Services of a list that are of type NodePort or LoadBalancer and
\* have a port with a node port.
Holders(items) ==
    { i \in 1..Len(items) :
        /\ items[i].Type \in { "NodePort", "LoadBalancer" }
        /\ \E k \in 1..Len(items[i].Ports) : items[i].Ports[k].NodePort > 0 }

\* The rest of the iteration: the scan of the Services, the append to
\* releasesInfo, and the return after the last release (client.go lines
\* 212-226 and 236-257).
L_Scan ==
    /\ UNCHANGED notLstVars
    /\ lsPc = "scan"
    /\ LET rel == lsResults.names[lsIdx]
           scan == getReleaseNodePorts(lsLookup)
           infos == Append(releasesInfo, [Name |-> rel, NodePorts |-> scan.nodePorts])
       IN  /\ lsScan' = [release |-> rel,
                         listed |-> Len(lsLookup.items),
                         holders |-> Holders(lsLookup.items),
                         failed |-> lsLookup.err # Nil,
                         stopped |-> scan.stopped]
           /\ IF EnrichError(lsLookup.err) # Nil
              THEN /\ lsOut' = [err |-> ErrFailedList(EnrichError(lsLookup.err)), list |-> << >>]
                   /\ lsPc' = "returned"
                   /\ UNCHANGED << releasesInfo, lsIdx >>
              ELSE /\ releasesInfo' = infos
                   /\ lsIdx' = lsIdx + 1
                   /\ IF lsIdx = Len(lsResults.names)
                      THEN lsOut' = [err |-> Nil, list |-> infos] /\ lsPc' = "returned"
                      ELSE lsOut' = lsOut /\ lsPc' = "lookup"
    /\ lsLookup' = NoServices
    /\ UNCHANGED lsResults

NextList ==
    \/ L_Run
    \/ L_Lookup
    \/ L_Scan

SpecList == InitList /\ [][NextList]_vars

\* The ports a Service gives the map: for every key, the node port of the
\* last port of the Service with that key and a node port greater than 0.
PortsOf(service) ==
    { << PortName(service.Ports[k]), service.Ports[k].NodePort >> :
        k \in { j \in 1..Len(service.Ports) :
                  /\ service.Ports[j].NodePort > 0
                  /\ \A l \in (j + 1)..Len(service.Ports) :
                         service.Ports[l].NodePort > 0 =>
                             PortName(service.Ports[l]) # PortName(service.Ports[j]) } }

\* The entry the step has appended to releasesInfo.
Appended1 == releasesInfo'[Len(releasesInfo')]

\* C23: the lookup of a release asks for the Services carrying its instance
\* label, and the port map of the release is empty when no Service of the
\* answer is of type NodePort or LoadBalancer with a port whose node port is
\* greater than 0; otherwise it holds the ports of the first such Service in
\* list order and of no other, one entry per port with a node port greater
\* than 0, under the port's name or, when the name is empty, its number in
\* decimal.
C23_FirstServiceWithPorts ==
    [][(lsPc = "scan" /\ lsLookup.err = Nil) =>
          LET items == lsLookup.items
              holders == Holders(items)
          IN  /\ lsLookup.selector = lsResults.names[lsIdx]
              /\ Len(releasesInfo') = Len(releasesInfo) + 1
              /\ IF holders = {}
                 THEN Appended1.NodePorts = {} /\ lsScan'.stopped = 0
                 ELSE LET first == CHOOSE i \in holders : \A j \in holders : i <= j
                      IN  /\ Appended1.NodePorts = PortsOf(items[first])
                          /\ lsScan'.stopped = first
              /\ \A e \in Appended1.NodePorts : e[2] > 0]_vars

\* A scan of two Services that both had ports to give stopped at the first
\* one: the release's map holds the two ports of that Service, the unnamed
\* one under its number.
C23_Witness ==
    /\ lsScan.listed = 2
    /\ lsScan.holders = { 1, 2 }
    /\ lsScan.stopped = 1
    /\ releasesInfo # << >>
    /\ Last(releasesInfo).Name = lsScan.release
    /\ Last(releasesInfo).NodePorts = { << "http", 30080 >>, << "443", 30443 >> }

\* C24: a failed Service lookup does not end the listing: the iteration
\* appends the release with an empty port map and leaves the entries of the
\* other releases as they were, and the listing returns, without an error,
\* one entry for every release the backend returned, in the backend's order.
C24_LookupFailureTolerated ==
    [][/\ lsPc = "scan" =>
              /\ Len(releasesInfo') = Len(releasesInfo) + 1
              /\ SubSeq(releasesInfo', 1, Len(releasesInfo)) = releasesInfo
              /\ Appended1.Name = lsResults.names[lsIdx]
              /\ lsLookup.err # Nil => Appended1.NodePorts = {}
              /\ lsPc' = "returned" => lsIdx = Len(lsResults.names)
       /\ (lsPc' = "returned" /\ lsResults'.err = Nil) =>
              /\ lsOut'.err = Nil
              /\ Len(lsOut'.list) = Len(lsResults'.names)
              /\ \A i \in 1..Len(lsOut'.list) : lsOut'.list[i].Name = lsResults'.names[i]]_vars

\* A listing of two releases has returned: the first release has its port,
\* the lookup for the second one failed and its port map is empty.
C24_Witness ==
    /\ lsPc = "returned"
    /\ lsOut.err = Nil
    /\ Len(lsOut.list) = 2
    /\ lsOut.list[1] = [Name |-> "web", NodePorts |-> { << "http", 30080 >> }]
    /\ lsOut.list[2] = [Name |-> "nginx", NodePorts |-> {}]
    /\ lsScan.release = "nginx" /\ lsScan.failed

\* C25 as stated: the polling goroutine never sends on messageChan after
\* the handler's deferred close(messageChan) has run, in any interleaving of
\* ticks, snapshots, the client's disconnect and failed writes.
C25_Original ==
    ~(messageChan = "closed" /\ pollPc = "panicked")

\* p is inside an InstallChart call.
Installing(p) == kind[p] = "InstallChart" /\ pc[p] # "done"

\* p's InstallChart call has ended with a release or with an error.
InstallEnded(p) ==
    /\ kind[p] = "InstallChart"
    /\ pc[p] = "done"
    /\ \/ resp[p].code = 200 /\ resp[p].name = releaseName[p] /\ resp[p].err = Nil
       \/ resp[p].code # 200 /\ resp[p].err # Nil

\* C26: an InstallChart that calls UpdateRepos, or waits in its Lock(), does
\* not hold repoUpdateMu itself, and every InstallChart call ends with a
\* release or an error, whatever installs and repository syncs run beside
\* it.
C26_InstallTerminates ==
    /\ [](\A p \in Procs : pc[p] \in { "ic_update", "ur_lock" } => repoUpdateMu # p)
    /\ \A p \in Procs : Installing(p) ~> InstallEnded(p)

\* Two installs side by side, each with a failed first resolution and its
\* own on-demand sync, have both ended, one of them with a release.
C26_Witness ==
    \E p, q \in Procs :
        /\ p # q
        /\ InstallEnded(p) /\ InstallEnded(q)
        /\ Len(Entries(p, "UpdateRepos")) = 1
        /\ Len(Entries(q, "UpdateRepos")) = 1
        /\ resp[p].code = 200

\* --------------------------------------------------- the package main variant
\* The functions the handlers of the package main variant call.
MainFunctions ==
    { "InstallChart", "ListInstalledReleases", "UninstallRelease", "GetReleaseStatus" }

\* The chart names install requests are made for.
MainChartNames == { "nginx", "local", "ghost" }

\* InitHelm has loaded the chart configuration and calls updateHelmRepos:
\* main is about to take mu; no request is served before InitHelm returns
\* (part_003 lines 80-83, part_004 lines 12-46).
InitMain ==
    /\ Fresh /\ opsLeft = 0 /\ CatIdle /\ CliIdle /\ MetIdle /\ StrIdle /\ LstIdle
    /\ mu = "free"
    /\ mPc = [g \in MainProcs |-> IF g = "main" THEN "sync_lock" ELSE "idle"]
    /\ mKind = [g \in MainProcs |-> IF g = "main" THEN "InitHelm" ELSE "none"]
    /\ mChart = [g \in MainProcs |-> ""]
    /\ mRepos = {}
    /\ mResp = [g \in MainProcs |-> ""]
    /\ mOps = MaxOps

\* A handler calls one of the functions: its goroutine arrives at the
\* function's mu.Lock().
M_Call(g, f, chartName) ==
    /\ UNCHANGED notMainVars
    /\ mPc["main"] = "done"
    /\ mPc[g] \in { "idle", "done" }
    /\ mOps > 0
    /\ mOps' = mOps - 1
    /\ mKind' = [mKind EXCEPT ![g] = f]
    /\ mChart' = [mChart EXCEPT ![g] = IF f = "InstallChart" THEN chartName ELSE ""]
    /\ mResp' = [mResp EXCEPT ![g] = ""]
    /\ mPc' = [mPc EXCEPT ![g] = "lock"]
    /\ UNCHANGED << mu, mRepos >>

\* mu.Lock() returns only when nobody holds mu: sync.Mutex does not know
\* its holder.
MuFree(g) == mu = "free"

\* mu.Lock(), at the top of a function called by a handler and at the top
\* of updateHelmRepos (part_003 lines 115, 161, 221, 250, 269).
M_Lock(g) ==
    /\ UNCHANGED notMainVars
    /\ mPc[g] \in { "lock", "sync_lock" }
    /\ MuFree(g)
    /\ mu' = g
    /\ mPc' = [mPc EXCEPT ![g] =
                  IF mPc[g] = "sync_lock" THEN "repos"
                  ELSE IF mKind[g] = "InstallChart" THEN "history"
                  ELSE "body"]
    /\ UNCHANGED << mKind, mChart, mRepos, mResp, mOps >>

\* A function returns r: its deferred mu.Unlock() runs.
M_Return(g, r) ==
    /\ mResp' = [mResp EXCEPT ![g] = r]
    /\ mPc' = [mPc EXCEPT ![g] = "done"]
    /\ mu' = "free"

\* The body of updateHelmRepos: the registrations, each of which can fail,
\* the refresh, the deferred Unlock and the return to InitHelm or to
\* InstallChart (part_003 lines 118-145).
M_Repos(g) ==
    /\ UNCHANGED notMainVars
    /\ mPc[g] = "repos"
    /\ \E added \in SUBSET DerivedRepoNames(Catalog) : mRepos' = mRepos \cup added
    /\ mu' = "free"
    /\ mPc' = [mPc EXCEPT ![g] = IF mKind[g] = "InstallChart" THEN "locate2" ELSE "done"]
    /\ UNCHANGED << mKind, mChart, mResp, mOps >>

\* What histClient.Run can return in the package main variant.
MainHistoryOutcomes ==
    { [n |-> 1, err |-> Nil], [n |-> 0, err |-> ErrReleaseNotFound],
      [n |-> 0, err |-> Nil], [n |-> 0, err |-> ErrUnreachable] }

\* InstallChart up to its pre-check: GetChartByName and the history query
\* (part_003 lines 164-183).
M_History(g) ==
    /\ UNCHANGED notMainVars
    /\ mPc[g] = "history"
    /\ IF GetChartByName(mChart[g]) = 0
       THEN M_Return(g, "error")
       ELSE \E h \in MainHistoryOutcomes :
               IF PreCheck(h) = "go"
               THEN /\ mPc' = [mPc EXCEPT ![g] = "locate1"]
                    /\ UNCHANGED << mu, mResp >>
               ELSE M_Return(g, "error")
    /\ UNCHANGED << mKind, mChart, mRepos, mOps >>

\* What LocateChart can return for a chart name of the catalog.
MainLocateOutcomes(chartName) ==
    LET chart == Catalog[GetChartByName(chartName)].Chart
    IN  IF Len(SplitN2(chart)) = 2 /\ SplitN2(chart)[1] \notin mRepos
        THEN { ErrNoChart }
        ELSE { Nil, ErrNoChart }

\* client.ChartPathOptions.LocateChart, at the first attempt and at the
\* retry: a failed first attempt calls updateHelmRepos, whose first
\* statement is mu.Lock(); a failed retry returns the error (part_003 lines
\* 194-202).
M_Locate(g) ==
    /\ UNCHANGED notMainVars
    /\ mPc[g] \in { "locate1", "locate2" }
    /\ \E err \in MainLocateOutcomes(mChart[g]) :
          IF err = Nil
          THEN /\ mPc' = [mPc EXCEPT ![g] = "load"]
               /\ UNCHANGED << mu, mResp >>
          ELSE IF mPc[g] = "locate1"
               THEN /\ mPc' = [mPc EXCEPT ![g] = "sync_lock"]
                    /\ UNCHANGED << mu, mResp >>
               ELSE M_Return(g, "error")
    /\ UNCHANGED << mKind, mChart, mRepos, mOps >>

\* loader.Load (part_003 lines 205-208).
M_Load(g) ==
    /\ UNCHANGED notMainVars
    /\ mPc[g] = "load"
    /\ \/ mPc' = [mPc EXCEPT ![g] = "run"] /\ UNCHANGED << mu, mResp >>
       \/ M_Return(g, "error")
    /\ UNCHANGED << mKind, mChart, mRepos, mOps >>

\* client.Run (part_003 lines 211-217).
M_Run(g) ==
    /\ UNCHANGED notMainVars
    /\ mPc[g] = "run"
    /\ \E r \in { "release", "error" } : M_Return(g, r)
    /\ UNCHANGED << mKind, mChart, mRepos, mOps >>

\* ListInstalledReleases, UninstallRelease, GetReleaseStatus between their
\* Lock and their deferred Unlock: the backend call or the helm command
\* (part_003 lines 220-290).
M_Body(g) ==
    /\ UNCHANGED notMainVars
    /\ mPc[g] = "body"
    /\ \E r \in { "value", "error" } : M_Return(g, r)
    /\ UNCHANGED << mKind, mChart, mRepos, mOps >>

\* The steps of goroutine g that call the backend or run a command.
M_Running(g) ==
    \/ M_Repos(g)
    \/ M_History(g)
    \/ M_Locate(g)
    \/ M_Load(g)
    \/ M_Run(g)
    \/ M_Body(g)

NextMain ==
    \/ \E g \in Procs, f \in MainFunctions, c \in MainChartNames : M_Call(g, f, c)
    \/ \E g \in MainProcs : M_Lock(g)
    \/ \E g \in MainProcs : M_Repos(g)
    \/ \E g \in Procs : M_History(g)
    \/ \E g \in Procs : M_Locate(g)
    \/ \E g \in Procs : M_Load(g)
    \/ \E g \in Procs : M_Run(g)
    \/ \E g \in Procs : M_Body(g)

SpecMain == InitMain /\ [][NextMain]_vars

\* The package main variant under a fair scheduler: a goroutine that can
\* run does run, and a goroutine waiting in mu.Lock() gets the mutex when
\* it is free again and again.
SpecMainLive ==
    /\ SpecMain
    /\ \A g \in MainProcs : WF_vars(M_Running(g)) /\ SF_vars(M_Lock(g))

\* C27 as stated: in the package main variant an InstallChart whose first
\* LocateChart fails completes the repository update, performs the retry
\* resolution and returns a release or an error.
C27_Original ==
    \A g \in Procs :
        (mKind[g] = "InstallChart" /\ mPc[g] = "sync_lock") ~>
            (mPc[g] = "done" /\ mResp[g] \in { "release", "error" })

\* InstallChart waits in the mu.Lock() of updateHelmRepos for the mutex it
\* holds itself.
C27_SelfDeadlock ==
    \E g \in Procs :
        /\ mKind[g] = "InstallChart"
        /\ mPc[g] = "sync_lock"
        /\ mu = g

\* The positions of p's trace holding a call of kind k.
Positions(p, k) == { i \in 1..Len(trace[p]) : trace[p][i][1] = k }

\* p's UpdateRepos call, direct or made by its InstallChart, has returned.
PassOver(p) ==
    \/ SyncReturned(p)
    \/ /\ kind[p] = "InstallChart"
       /\ Len(Entries(p, "UpdateRepos")) = 1
       /\ pc[p] \notin { "ur_lock", "ur_loop" }

\* A registration of p's pass succeeded.
SomeRegistered(p) == \E i \in Positions(p, "repo add") : trace[p][i][3] = TRUE

\* C28: in one UpdateRepos call the global refresh runs at most once and
\* after every registration of the call; a call that has returned ran the
\* refresh if and only if one of its own registrations succeeded, whatever
\* other passes registered; and a direct call returns no error, also when it
\* ran no registration or only failed ones.
C28_RefreshAfterRegistrations ==
    \A p \in Procs :
        /\ Cardinality(Positions(p, "repo update")) <= 1
        /\ \A u \in Positions(p, "repo update") :
               /\ \A a \in Positions(p, "repo add") : a < u
               /\ SomeRegistered(p)
        /\ PassOver(p) => (Positions(p, "repo update") # {} <=> SomeRegistered(p))
        /\ SyncReturned(p) => resp[p].err = Nil

\* A pass over the whole catalog whose two registrations failed has
\* returned without a refresh and without an error, while the repository is
\* registered all the same, by another pass.
C28_Witness ==
    \E p \in Procs :
        /\ SyncReturned(p)
        /\ urCharts[p] = Catalog
        /\ Len(trace[p]) = 2
        /\ \A i \in 1..2 : trace[p][i][1] = "repo add" /\ trace[p][i][3] = FALSE
        /\ resp[p].err = Nil
        /\ repos # {}

\* What the history query of p's step returned.
HistoryResult(p) == Last(trace'[p])[3]

\* C29: the step of InstallChart that queries the history ends the call
\* with the "error checking history" error, before any chart resolution or
\* install, when the query failed with an error other than "release: not
\* found"; it ends the call with the duplicate error when the query
\* succeeded with at least one record; and it goes on to the chart
\* resolution, answering nothing yet, when the query failed with "release:
\* not found" or succeeded with an empty history.
C29_PreCheckThreeWays ==
    [][\A p \in Procs :
          Leaves(p, "ic_history") =>
              LET h == HistoryResult(p)
                  name == releaseName[p]
                  absent == h.err # Nil /\ Contains(h.err, ErrReleaseNotFound)
              IN  /\ Last(trace'[p])[1] = "history" /\ Last(trace'[p])[2] = name
                  /\ Len(trace'[p]) = 1
                  /\ releases' = releases
                  /\ (h.err # Nil /\ ~absent) =>
                         /\ pc'[p] = "done"
                         /\ resp'[p].code = 500
                         /\ resp'[p].err = ErrCheckingHistory(name, h.err)
                  /\ (absent \/ (h.err = Nil /\ h.n = 0)) =>
                         /\ pc'[p] = "ic_locate1"
                         /\ resp'[p] = NoResp
                  /\ (h.err = Nil /\ h.n > 0) =>
                         /\ pc'[p] = "done"
                         /\ resp'[p].code = 500
                         /\ resp'[p].err = ErrAlreadyExists(name)]_vars

\* One install was ended by a history query that failed with another error
\* than "release: not found", with no call after the query; another one
\* went on after a "release: not found" error and installed its release.
C29_Witness ==
    \E p, q \in Procs :
        /\ p # q
        /\ kind[p] = "InstallChart" /\ pc[p] = "done"
        /\ Len(trace[p]) = 1
        /\ trace[p][1][3] = [n |-> 0, err |-> ErrUnreachable]
        /\ resp[p].err = ErrCheckingHistory(releaseName[p], ErrUnreachable)
        /\ kind[q] = "InstallChart" /\ pc[q] = "done"
        /\ resp[q].code = 200
        /\ trace[q][1][3] = [n |-> 0, err |-> ErrReleaseNotFound]

\* C30: a name whose release a successful uninstall removed has no release
\* and no record; a later InstallChart for that name passes the pre-check
\* unless the history query itself fails, its backend install is not
\* refused for a name in use, and when the backend install succeeds the
\* call answers 200 with that name.
C30_NameReusable ==
    /\ [](\A n \in removed : releases[n] = "none")
    /\ [][LET p == SeqCaller
              name == releaseName[p]
          IN  /\ (Leaves(p, "ic_history") /\ name \in removed
                      /\ HistoryResult(p).err # ErrUnreachable) =>
                     /\ HistoryResult(p).n = 0
                     /\ pc'[p] = "ic_locate1"
              /\ (Leaves(p, "ic_run") /\ name \in removed) =>
                     /\ Last(trace'[p])[3] # ErrNameInUse
                     /\ Last(trace'[p])[3] = Nil =>
                            /\ resp'[p].code = 200
                            /\ resp'[p].name = name
                            /\ releases'[name] = "deployed"]_vars

\* The third operation of the caller, after an install and an uninstall of
\* "web": an install of "web" that passed the pre-check and stands before
\* its backend install.
C30_Witness ==
    /\ opsLeft = MaxSeqOps - 3
    /\ kind[SeqCaller] = "InstallChart"
    /\ releaseName[SeqCaller] = "web"
    /\ "web" \in removed
    /\ pc[SeqCaller] = "ic_run"
    /\ PassedPreCheck(SeqCaller)
====
